---- MODULE Spec2Model ----
(***************************************************************************)
(* Attention-and-violation state machine of the video interview proctor.   *)
(* Client: src/frontend/script.js (lines 1-1058).  Report server:          *)
(* src/unnamed/part_000.                                                   *)
(*                                                                         *)
(* Time is the wall clock in milliseconds.  Confidence scores are held in  *)
(* hundredths (0.61 is 61).  A face carries the x coordinates the gaze     *)
(* classifier reads; the y coordinates are only drawn and are left out.    *)
(***************************************************************************)
EXTENDS Integers, Sequences, FiniteSets, TLC

VARIABLES
    now,                    \* wall clock, ms (new Date())
    isInterviewRunning,     \* script.js:5
    startTime,              \* script.js:6
    lookAwayCount,          \* script.js:10
    noFaceCount,            \* script.js:11
    multipleFacesCount,     \* script.js:12
    gazeDirectionHistory,   \* script.js:13
    phoneCount,             \* script.js:17
    bookCount,              \* script.js:18
    deviceCount,            \* script.js:19
    lookingAwayStartTime,   \* script.js:25
    noFaceStartTime,        \* script.js:26
    eventLog,               \* script.js:38
    dom,                    \* counters, score and label shown on the page
    focusIndicator,         \* text of #focus-indicator
    gazeDebug,              \* LOOKING AWAY / FOCUSED text drawn on the canvas
    startBtnDisabled,       \* #start-btn.disabled
    mediaPending,           \* getUserMedia calls not yet settled
    metadataPending,        \* loadedmetadata events not yet delivered
    faceTimers,             \* due times of the live face interval timers
    faceHandleLive,         \* detectionInterval names the last live face timer
    faceInFlight,           \* estimateFaces calls not yet settled
    objTimers,              \* due times of the live object interval timers
    objHandleLive,          \* objectDetectionInterval names the last live timer
    objInFlight,            \* detect calls not yet settled
    mediaRecorder,          \* "null", "recording" or "inactive" (script.js:31)
    onstopPending,          \* a MediaRecorder stop event not yet delivered
    videoBlob,              \* a recording has been stored (script.js:33)
    videoTimeouts,          \* due times of the pending recording downloads
    starts,                 \* start clicks so far
    lastFaces,              \* history: faces of the last processed frame
    lastFrameTime,          \* history: time of the last processed frame
    awayRun,                \* history: leading run of looking-away frames at cadence
    zeroRunStart,           \* history: first frame of the current zero-face run
    multiPhase,             \* history: progress of the multiple-faces scenario
    lastPredictions,        \* history: detections of the last processed object tick,
                            \* emptied when the next detect() call is issued
    downloadBtnDisabled,    \* #download-btn.disabled
    durationText,           \* seconds shown in #duration
    downloads,              \* download clicks so far
    reportData,             \* the payload built by the last downloadReport
    exported,               \* history: the last JSON body handed to fetch
    postInFlight,           \* POST /api/reports requests on their way to the server
    postResponses,          \* responses on their way back to downloadReport
    documents,              \* the PDF and text reports saved by the browser
    reports,                \* server: the reports array (part_000:20)
    files,                  \* server: ids with a report-<id>.json file
    nextId,                 \* server: ids handed out by generateId
    getResponse,            \* the last answer of GET /api/reports/:id
    deleteResponse          \* the last answer of DELETE /api/reports/:id

trackerVars == <<lookAwayCount, noFaceCount, multipleFacesCount, gazeDirectionHistory,
                 phoneCount, bookCount, deviceCount, lookingAwayStartTime,
                 noFaceStartTime, eventLog, dom, focusIndicator, gazeDebug>>
sessionVars == <<isInterviewRunning, startTime, startBtnDisabled, downloadBtnDisabled,
                 mediaPending,
                 metadataPending, faceTimers, faceHandleLive, objTimers,
                 objHandleLive, mediaRecorder, onstopPending, videoBlob,
                 videoTimeouts, starts>>
frameHist == <<lastFaces, lastFrameTime, awayRun, zeroRunStart, multiPhase,
               lastPredictions>>
reportVars == <<durationText, downloads, reportData, exported,
                postInFlight, postResponses, documents, reports, files, nextId,
                getResponse, deleteResponse>>
vars == <<now, trackerVars, sessionVars, faceInFlight, objInFlight, frameHist,
          reportVars>>

----------------------------------------------------------------------------
(* Bounds of the model *)
MaxStarts == 2
MaxInFlight == 2
GazeMaxTime == 4000
GazeLongMaxTime == 5600
ObjRunMaxTime == 1500
ChannelsMaxTime == 1000
DeleteMaxTime == 2000
DeleteStep == 1000
GazeGapMaxTime == 9000
GazeGapStep == 1000
RestartMaxTime == 12000
RestartStep == 3000
GazeMultiMaxTime == 9000
GazeMultiStep == 1000
NoFaceMaxTime == 19000
NoFaceStep == 1000
SessionMaxTime == 500
MaxPredictions == 2
ObjMaxTime == 1000
MalformedMaxTime == 1000
MaxPosts == 2
ClassifierMaxTime == 400
ScoreMaxLookAway == 3
ScoreMaxItems == 4

(* Program constants *)
NULL == -1
GAZE_HISTORY_LENGTH == 8
FACE_INTERVAL == 200
OBJECT_INTERVAL == 500
VIDEO_DOWNLOAD_DELAY == 500

Max(a, b) == IF a > b THEN a ELSE b
Min(a, b) == IF a < b THEN a ELSE b
Abs(a) == IF a < 0 THEN -a ELSE a

----------------------------------------------------------------------------
(* Face observations fed to the classifier *)
FocusedFace == [rightEye |-> <<41, 43, 45>>, leftEye |-> <<55, 57, 59>>,
                nose |-> 50, topLeft |-> 0, bottomRight |-> 100]
AwayFace == [rightEye |-> <<33, 35, 37>>, leftEye |-> <<63, 65, 67>>,
             nose |-> 50, topLeft |-> 0, bottomRight |-> 100]

----------------------------------------------------------------------------
(* The globals the trackers read and write, as one record *)
G == [lookAwayCount |-> lookAwayCount, noFaceCount |-> noFaceCount,
      multipleFacesCount |-> multipleFacesCount,
      gazeDirectionHistory |-> gazeDirectionHistory,
      phoneCount |-> phoneCount, bookCount |-> bookCount, deviceCount |-> deviceCount,
      lookingAwayStartTime |-> lookingAwayStartTime,
      noFaceStartTime |-> noFaceStartTime, eventLog |-> eventLog, dom |-> dom,
      focusIndicator |-> focusIndicator, gazeDebug |-> gazeDebug]

Commit(s) ==
    /\ lookAwayCount' = s.lookAwayCount
    /\ noFaceCount' = s.noFaceCount
    /\ multipleFacesCount' = s.multipleFacesCount
    /\ gazeDirectionHistory' = s.gazeDirectionHistory
    /\ phoneCount' = s.phoneCount
    /\ bookCount' = s.bookCount
    /\ deviceCount' = s.deviceCount
    /\ lookingAwayStartTime' = s.lookingAwayStartTime
    /\ noFaceStartTime' = s.noFaceStartTime
    /\ eventLog' = s.eventLog
    /\ dom' = s.dom
    /\ focusIndicator' = s.focusIndicator
    /\ gazeDebug' = s.gazeDebug

----------------------------------------------------------------------------
(* Integrity score and its label *)
Deductions(s) == (s.lookAwayCount * 2) + (s.noFaceCount * 5) + (s.multipleFacesCount * 10)
                 + (s.phoneCount * 10) + (s.bookCount * 8) + (s.deviceCount * 7)

(* Mutant: the clamp at 0 left out *)
IntegrityScoreUnclamped(s) == 100 - Deductions(s)

IntegrityScore(s) == Max(0, 100 - Deductions(s))

(* Mutant: the label thresholds made exclusive *)
ScoreLabelExclusive(score) ==
    IF score > 90 THEN "Excellent"
    ELSE IF score > 70 THEN "Good"
    ELSE IF score > 50 THEN "Fair"
    ELSE "Poor"

ScoreLabel(score) ==
    IF score >= 90 THEN "Excellent"
    ELSE IF score >= 70 THEN "Good"
    ELSE IF score >= 50 THEN "Fair"
    ELSE "Poor"

updateStatusIndicators(s) ==
    [s EXCEPT !.dom = [lookAway |-> s.lookAwayCount, noFace |-> s.noFaceCount,
                       multipleFaces |-> s.multipleFacesCount,
                       phone |-> s.phoneCount, book |-> s.bookCount,
                       device |-> s.deviceCount,
                       score |-> IntegrityScore(s),
                       label |-> ScoreLabel(IntegrityScore(s))]]

(* toTimeString().split(' ')[0] is HH:MM:SS: the clock cut to whole seconds *)
FormatTime(t) == t \div 1000

(* Mutant: the newest entry put first (unshift instead of push) *)
logEventNewestFirst(s, message, arg, type, t) ==
    [s EXCEPT !.eventLog = <<[timestamp |-> FormatTime(t), message |-> message,
                              arg |-> arg, type |-> type]>> \o @]

logEvent(s, message, arg, type, t) ==
    [s EXCEPT !.eventLog = Append(@, [timestamp |-> FormatTime(t), message |-> message,
                                      arg |-> arg, type |-> type])]

----------------------------------------------------------------------------
(* Gaze classifier.  Distances are kept times 3 (the eye centre is the mean *)
(* of three points), thresholds in hundredths.  A zero face width makes the *)
(* JavaScript quotient Infinity (distance > 0) or NaN (distance = 0); every *)
(* comparison with NaN is false.                                            *)
LOOKING_AWAY_THRESHOLD == 12
RATIO_THRESHOLD == 70
LOOK_AWAY_MS == 2000
RETURNED_MS == 1000
NO_FACE_MS == 8000

EyeDistance3(eye, nose) == Abs((eye[1] + eye[2] + eye[3]) - 3 * nose)

FaceWidth(face) == Abs(face.topLeft - face.bottomRight)

(* Mutant: the distance threshold made inclusive *)
NormalizedReaches(d3, w) ==
    IF w = 0 THEN d3 > 0
    ELSE d3 * 100 >= LOOKING_AWAY_THRESHOLD * 3 * w

NormalizedExceeds(d3, w) ==
    IF w = 0 THEN d3 > 0
    ELSE d3 * 100 > LOOKING_AWAY_THRESHOLD * 3 * w

RatioBelow(r3, l3, w) ==
    IF w = 0 \/ Max(r3, l3) = 0 THEN FALSE
    ELSE Min(r3, l3) * 100 < RATIO_THRESHOLD * Max(r3, l3)

RawLookingAway(face) ==
    LET r3 == EyeDistance3(face.rightEye, face.nose)
        l3 == EyeDistance3(face.leftEye, face.nose)
        w == FaceWidth(face)
    IN (NormalizedExceeds(r3, w) /\ NormalizedExceeds(l3, w)) \/ RatioBelow(r3, l3, w)

(* Temporal debouncer *)
(* Mutant: a full history drops the sample just pushed (pop for shift) *)
PushSampleKeepsOldest(hist, sample) ==
    LET h == Append(hist, sample)
    IN IF Len(h) > GAZE_HISTORY_LENGTH THEN SubSeq(h, 1, GAZE_HISTORY_LENGTH) ELSE h

PushSample(hist, sample) ==
    LET h == Append(hist, sample)
    IN IF Len(h) > GAZE_HISTORY_LENGTH THEN Tail(h) ELSE h

CountTrue(hist) == Cardinality({i \in 1..Len(hist) : hist[i]})

(* Mutant: the 60% threshold taken of the samples held, not of the capacity *)
IsConsistentlyLookingAwayOfHeld(hist) == CountTrue(hist) * 10 > Len(hist) * 6

IsConsistentlyLookingAway(hist) == CountTrue(hist) * 10 > GAZE_HISTORY_LENGTH * 6

(* Mutant: the earlier 5 second threshold *)
LookAwayFiresAfter5s(start, t) == t - start > 5000

(* Mutant: the violation counted when exactly 2 seconds have elapsed *)
LookAwayFiresAt2s(start, t) == t - start >= LOOK_AWAY_MS

LookAwayFires(start, t) == t - start > LOOK_AWAY_MS

(* Mutant: the violation counted as soon as the episode opens *)
checkGazeDirectionCountsAtOpen(s, face, t) ==
    LET hist == PushSample(s.gazeDirectionHistory, RawLookingAway(face))
        consistent == IsConsistentlyLookingAway(hist)
        s1 == [s EXCEPT !.gazeDirectionHistory = hist,
                        !.gazeDebug = IF consistent THEN "LOOKING AWAY" ELSE "FOCUSED"]
    IN IF consistent
       THEN IF s1.lookingAwayStartTime = NULL
            THEN [s |-> logEvent(updateStatusIndicators(
                                     [s1 EXCEPT !.lookingAwayStartTime = t,
                                                !.lookAwayCount = @ + 1]),
                                 "Candidate started looking away from screen.", 0,
                                 "warning", t),
                  ret |-> FALSE]
            ELSE IF LookAwayFires(s1.lookingAwayStartTime, t)
                 THEN LET s2 == updateStatusIndicators(
                                    [s1 EXCEPT !.lookAwayCount = @ + 1])
                          s3 == logEvent(s2,
                                    "Candidate looked away for more than 2 seconds!",
                                    s2.lookAwayCount, "warning", t)
                      IN [s |-> [s3 EXCEPT !.lookingAwayStartTime = t], ret |-> TRUE]
                 ELSE [s |-> s1, ret |-> FALSE]
       ELSE IF s1.lookingAwayStartTime # NULL
            THEN LET s2 == IF t - s1.lookingAwayStartTime > RETURNED_MS
                           THEN logEvent(s1, "Candidate returned to looking at screen.",
                                         0, "success", t)
                           ELSE s1
                 IN [s |-> [s2 EXCEPT !.lookingAwayStartTime = NULL], ret |-> FALSE]
            ELSE [s |-> s1, ret |-> FALSE]

(* Mutant: the episode start left alone when the violation is counted *)
checkGazeDirectionNoReset(s, face, t) ==
    LET hist == PushSample(s.gazeDirectionHistory, RawLookingAway(face))
        consistent == IsConsistentlyLookingAway(hist)
        s1 == [s EXCEPT !.gazeDirectionHistory = hist,
                        !.gazeDebug = IF consistent THEN "LOOKING AWAY" ELSE "FOCUSED"]
    IN IF consistent
       THEN IF s1.lookingAwayStartTime = NULL
            THEN [s |-> logEvent([s1 EXCEPT !.lookingAwayStartTime = t],
                                 "Candidate started looking away from screen.", 0,
                                 "warning", t),
                  ret |-> FALSE]
            ELSE IF LookAwayFires(s1.lookingAwayStartTime, t)
                 THEN LET s2 == updateStatusIndicators(
                                    [s1 EXCEPT !.lookAwayCount = @ + 1])
                          s3 == logEvent(s2,
                                    "Candidate looked away for more than 2 seconds!",
                                    s2.lookAwayCount, "warning", t)
                      IN [s |-> s3, ret |-> TRUE]
                 ELSE [s |-> s1, ret |-> FALSE]
       ELSE IF s1.lookingAwayStartTime # NULL
            THEN LET s2 == IF t - s1.lookingAwayStartTime > RETURNED_MS
                           THEN logEvent(s1, "Candidate returned to looking at screen.",
                                         0, "success", t)
                           ELSE s1
                 IN [s |-> [s2 EXCEPT !.lookingAwayStartTime = NULL], ret |-> FALSE]
            ELSE [s |-> s1, ret |-> FALSE]

checkGazeDirection(s, face, t) ==
    LET hist == PushSample(s.gazeDirectionHistory, RawLookingAway(face))
        consistent == IsConsistentlyLookingAway(hist)
        s1 == [s EXCEPT !.gazeDirectionHistory = hist,
                        !.gazeDebug = IF consistent THEN "LOOKING AWAY" ELSE "FOCUSED"]
    IN IF consistent
       THEN IF s1.lookingAwayStartTime = NULL
            THEN [s |-> logEvent([s1 EXCEPT !.lookingAwayStartTime = t],
                                 "Candidate started looking away from screen.", 0,
                                 "warning", t),
                  ret |-> FALSE]
            ELSE IF LookAwayFires(s1.lookingAwayStartTime, t)
                 THEN LET s2 == updateStatusIndicators(
                                    [s1 EXCEPT !.lookAwayCount = @ + 1])
                          s3 == logEvent(s2,
                                    "Candidate looked away for more than 2 seconds!",
                                    s2.lookAwayCount, "warning", t)
                      IN [s |-> [s3 EXCEPT !.lookingAwayStartTime = t], ret |-> TRUE]
                 ELSE [s |-> s1, ret |-> FALSE]
       ELSE IF s1.lookingAwayStartTime # NULL
            THEN LET s2 == IF t - s1.lookingAwayStartTime > RETURNED_MS
                           THEN logEvent(s1, "Candidate returned to looking at screen.",
                                         0, "success", t)
                           ELSE s1
                 IN [s |-> [s2 EXCEPT !.lookingAwayStartTime = NULL], ret |-> FALSE]
            ELSE [s |-> s1, ret |-> FALSE]

(* Mutant: the once-per-session guard dropped *)
NoFaceFiresEveryTime(s, t) == t - s.noFaceStartTime > NO_FACE_MS

NoFaceFires(s, t) == t - s.noFaceStartTime > NO_FACE_MS /\ s.noFaceCount = 0

(* Mutant: the timer cleared, not restarted, when the violation fires *)
handleNoFaceDetectedClearsTimer(s, t) ==
    IF s.noFaceStartTime = NULL
    THEN [s EXCEPT !.noFaceStartTime = t]
    ELSE IF NoFaceFires(s, t)
         THEN LET s1 == updateStatusIndicators([s EXCEPT !.noFaceCount = @ + 1])
                  s2 == logEvent(s1, "No face detected for more than 10 seconds!", 0,
                                 "error", t)
              IN [s2 EXCEPT !.noFaceStartTime = NULL]
         ELSE s

handleNoFaceDetected(s, t) ==
    IF s.noFaceStartTime = NULL
    THEN [s EXCEPT !.noFaceStartTime = t]
    ELSE IF NoFaceFires(s, t)
         THEN LET s1 == updateStatusIndicators([s EXCEPT !.noFaceCount = @ + 1])
                  s2 == logEvent(s1, "No face detected for more than 10 seconds!", 0,
                                 "error", t)
              IN [s2 EXCEPT !.noFaceStartTime = t]
         ELSE s

(* Mutant: the once-per-session guard dropped *)
MultipleFacesFiresEveryFrame(s, faces) == Len(faces) > 1

MultipleFacesFires(s, faces) == Len(faces) > 1 /\ s.multipleFacesCount = 0

RECURSIVE forEachFace(_, _, _, _, _)
forEachFace(s, faces, i, t, away) ==
    IF i > Len(faces) THEN [s |-> s, isLookingAway |-> away]
    ELSE LET r == checkGazeDirection(s, faces[i], t)
         IN forEachFace(r.s, faces, i + 1, t, away \/ r.ret)

(* Mutant: a frame with no face pushed as a looking-away sample *)
processFaceDetectionResultsNoFaceAsAway(s, faces, t) ==
    IF Len(faces) = 0
    THEN handleNoFaceDetected([s EXCEPT !.gazeDirectionHistory = PushSample(@, TRUE),
                                        !.focusIndicator = "No Face Detected"], t)
    ELSE LET s1 == IF s.noFaceStartTime # NULL
                   THEN logEvent([s EXCEPT !.noFaceStartTime = NULL],
                                 "Face detected again.", 0, "success", t)
                   ELSE s
             s2 == IF MultipleFacesFires(s1, faces)
                   THEN logEvent(updateStatusIndicators(
                                     [s1 EXCEPT !.multipleFacesCount = @ + 1]),
                                 "Multiple faces detected. Possible cheating attempt!",
                                 Len(faces), "error", t)
                   ELSE s1
             r == forEachFace(s2, faces, 1, t, FALSE)
         IN [r.s EXCEPT !.focusIndicator = IF r.isLookingAway THEN "Looking Away"
                                           ELSE "Candidate Focused"]

(* Mutant: a frame with no face leaves the gaze history as it is *)
processFaceDetectionResultsKeepsHistory(s, faces, t) ==
    IF Len(faces) = 0
    THEN handleNoFaceDetected([s EXCEPT !.focusIndicator = "No Face Detected"], t)
    ELSE LET s1 == IF s.noFaceStartTime # NULL
                   THEN logEvent([s EXCEPT !.noFaceStartTime = NULL],
                                 "Face detected again.", 0, "success", t)
                   ELSE s
             s2 == IF MultipleFacesFires(s1, faces)
                   THEN logEvent(updateStatusIndicators(
                                     [s1 EXCEPT !.multipleFacesCount = @ + 1]),
                                 "Multiple faces detected. Possible cheating attempt!",
                                 Len(faces), "error", t)
                   ELSE s1
             r == forEachFace(s2, faces, 1, t, FALSE)
         IN [r.s EXCEPT !.focusIndicator = IF r.isLookingAway THEN "Looking Away"
                                           ELSE "Candidate Focused"]

processFaceDetectionResults(s, faces, t) ==
    IF Len(faces) = 0
    THEN handleNoFaceDetected([s EXCEPT !.gazeDirectionHistory = <<>>,
                                        !.focusIndicator = "No Face Detected"], t)
    ELSE LET s1 == IF s.noFaceStartTime # NULL
                   THEN logEvent([s EXCEPT !.noFaceStartTime = NULL],
                                 "Face detected again.", 0, "success", t)
                   ELSE s
             s2 == IF MultipleFacesFires(s1, faces)
                   THEN logEvent(updateStatusIndicators(
                                     [s1 EXCEPT !.multipleFacesCount = @ + 1]),
                                 "Multiple faces detected. Possible cheating attempt!",
                                 Len(faces), "error", t)
                   ELSE s1
             r == forEachFace(s2, faces, 1, t, FALSE)
         IN [r.s EXCEPT !.focusIndicator = IF r.isLookingAway THEN "Looking Away"
                                           ELSE "Candidate Focused"]

----------------------------------------------------------------------------
(* Object violation tracker *)
PROHIBITED_ITEMS == {"cell phone", "book", "laptop", "keyboard", "mouse", "remote"}
DEVICE_ITEMS == {"laptop", "keyboard", "mouse", "remote"}
CONFIDENCE_THRESHOLD == 60

DeviceMessage(itemClass) ==
    CASE itemClass = "laptop" -> "Electronic device (laptop) detected!"
      [] itemClass = "keyboard" -> "Electronic device (keyboard) detected!"
      [] itemClass = "mouse" -> "Electronic device (mouse) detected!"
      [] itemClass = "remote" -> "Electronic device (remote) detected!"

(* Mutant: the confidence threshold made inclusive *)
IsProhibitedInclusive(prediction) ==
    prediction.class \in PROHIBITED_ITEMS /\ prediction.score >= CONFIDENCE_THRESHOLD

IsProhibited(prediction) ==
    prediction.class \in PROHIBITED_ITEMS /\ prediction.score > CONFIDENCE_THRESHOLD

(* Mutant: the closing updateStatusIndicators call left out *)
handleProhibitedItemDetectionUnshown(s, item, t) ==
    IF item.class = "cell phone"
    THEN logEvent([s EXCEPT !.phoneCount = @ + 1], "Mobile phone detected!",
                  item.score, "error", t)
    ELSE IF item.class = "book"
    THEN logEvent([s EXCEPT !.bookCount = @ + 1], "Book detected!",
                  item.score, "error", t)
    ELSE IF item.class \in DEVICE_ITEMS
    THEN logEvent([s EXCEPT !.deviceCount = @ + 1],
                  DeviceMessage(item.class), item.score, "error", t)
    ELSE s

(* Mutant: each counter capped at one detection per session *)
handleProhibitedItemDetectionOnce(s, item, t) ==
    LET s1 == IF item.class = "cell phone"
              THEN logEvent([s EXCEPT !.phoneCount = IF @ = 0 THEN 1 ELSE @],
                            "Mobile phone detected!", item.score, "error", t)
              ELSE IF item.class = "book"
              THEN logEvent([s EXCEPT !.bookCount = IF @ = 0 THEN 1 ELSE @],
                            "Book detected!", item.score, "error", t)
              ELSE IF item.class \in DEVICE_ITEMS
              THEN logEvent([s EXCEPT !.deviceCount = IF @ = 0 THEN 1 ELSE @],
                            DeviceMessage(item.class), item.score, "error", t)
              ELSE s
    IN updateStatusIndicators(s1)

handleProhibitedItemDetection(s, item, t) ==
    LET s1 == IF item.class = "cell phone"
              THEN logEvent([s EXCEPT !.phoneCount = @ + 1], "Mobile phone detected!",
                            item.score, "error", t)
              ELSE IF item.class = "book"
              THEN logEvent([s EXCEPT !.bookCount = @ + 1], "Book detected!",
                            item.score, "error", t)
              ELSE IF item.class \in DEVICE_ITEMS
              THEN logEvent([s EXCEPT !.deviceCount = @ + 1],
                            DeviceMessage(item.class), item.score, "error", t)
              ELSE s
    IN updateStatusIndicators(s1)

RECURSIVE forEachItem(_, _, _, _)
forEachItem(s, predictions, i, t) ==
    IF i > Len(predictions) THEN s
    ELSE IF IsProhibited(predictions[i])
         THEN forEachItem(handleProhibitedItemDetection(s, predictions[i], t),
                          predictions, i + 1, t)
         ELSE forEachItem(s, predictions, i + 1, t)

(* Mutant: the item counters hold what the current frame shows *)
processObjectDetectionResultsOfFrame(s, predictions, t) ==
    forEachItem(updateStatusIndicators([s EXCEPT !.phoneCount = 0, !.bookCount = 0,
                                                 !.deviceCount = 0]),
                predictions, 1, t)

(* Mutant: an object tick also empties the gaze history *)
processObjectDetectionResultsResetsGaze(s, predictions, t) ==
    forEachItem([s EXCEPT !.gazeDirectionHistory = <<>>], predictions, 1, t)

processObjectDetectionResults(s, predictions, t) == forEachItem(s, predictions, 1, t)

----------------------------------------------------------------------------
(* State after initializeApp has run with both models loaded *)
InitLog ==
    LET e(m, ty) == [timestamp |-> 0, message |-> m, arg |-> 0, type |-> ty]
    IN << e("Loading face detection model...", "info"),
          e("Face detection model loaded.", "success"),
          e("Loading object detection model...", "info"),
          e("Object detection model loaded.", "success"),
          e("All AI models loaded successfully. System is ready.", "success"),
          e("Application initialized. Click \"Start Interview\" to begin.", "info") >>

InitDom == [lookAway |-> 0, noFace |-> 0, multipleFaces |-> 0, phone |-> 0, book |-> 0,
            device |-> 0, score |-> 100, label |-> "Excellent"]

InitTrackers ==
    /\ lookAwayCount = 0 /\ noFaceCount = 0 /\ multipleFacesCount = 0
    /\ gazeDirectionHistory = <<>>
    /\ phoneCount = 0 /\ bookCount = 0 /\ deviceCount = 0
    /\ lookingAwayStartTime = NULL /\ noFaceStartTime = NULL
    /\ eventLog = InitLog
    /\ dom = InitDom
    /\ focusIndicator = "" /\ gazeDebug = ""

InitSession ==
    /\ isInterviewRunning = FALSE /\ startTime = NULL
    /\ startBtnDisabled = FALSE /\ downloadBtnDisabled = FALSE
    /\ mediaPending = 0 /\ metadataPending = 0
    /\ faceTimers = <<>> /\ faceHandleLive = FALSE /\ faceInFlight = 0
    /\ objTimers = <<>> /\ objHandleLive = FALSE /\ objInFlight = 0
    /\ mediaRecorder = "null" /\ onstopPending = FALSE
    /\ videoBlob = FALSE /\ videoTimeouts = <<>>
    /\ starts = 0

InitHist ==
    /\ lastFaces = <<>> /\ lastFrameTime = NULL
    /\ awayRun = 0 /\ zeroRunStart = NULL /\ multiPhase = 0
    /\ lastPredictions = <<>>

NoReport == [built |-> FALSE]
NoResponse == [status |-> 0]

InitReport ==
    /\ durationText = 0 /\ downloads = 0
    /\ reportData = NoReport /\ exported = NoReport
    /\ postInFlight = <<>> /\ postResponses = <<>> /\ documents = <<>>
    /\ reports = <<>> /\ files = {} /\ nextId = 1
    /\ getResponse = NoResponse /\ deleteResponse = NoResponse

Init == now = 0 /\ InitTrackers /\ InitSession /\ InitHist /\ InitReport

----------------------------------------------------------------------------
(* Session orchestrator *)
DropLast(seq) == SubSeq(seq, 1, Len(seq) - 1)

(* startInterview up to its await of getUserMedia *)
StartClick(maxStarts) ==
    /\ ~startBtnDisabled
    /\ starts < maxStarts
    /\ starts' = starts + 1
    /\ mediaPending' = mediaPending + 1
    /\ Commit(logEvent(G, "Starting interview process...", 0, "info", now))
    /\ UNCHANGED <<now, isInterviewRunning, startTime, startBtnDisabled, downloadBtnDisabled, metadataPending,
                   faceTimers, faceHandleLive, objTimers, objHandleLive, mediaRecorder,
                   onstopPending, videoBlob, videoTimeouts, faceInFlight, objInFlight, frameHist, reportVars>>

(* getUserMedia resolved: the stream is attached and its metadata will load *)
MediaResolve ==
    /\ mediaPending > 0
    /\ mediaPending' = mediaPending - 1
    /\ metadataPending' = metadataPending + 1
    /\ UNCHANGED <<now, trackerVars, isInterviewRunning, startTime, startBtnDisabled, downloadBtnDisabled,
                   faceTimers, faceHandleLive, objTimers, objHandleLive, mediaRecorder,
                   onstopPending, videoBlob, videoTimeouts, starts, faceInFlight, objInFlight, frameHist, reportVars>>

(* Mutant: the catch block logs the error and monitoring starts all the same *)
MediaRejectStillStarts ==
    /\ mediaPending > 0
    /\ mediaPending' = mediaPending - 1
    /\ isInterviewRunning' = TRUE
    /\ Commit(logEvent(G, "Error accessing camera: ", 0, "error", now))
    /\ UNCHANGED <<now, startTime, startBtnDisabled, downloadBtnDisabled, metadataPending,
                   faceTimers, faceHandleLive, objTimers, objHandleLive, mediaRecorder,
                   onstopPending, videoBlob, videoTimeouts, starts, faceInFlight, objInFlight, frameHist, reportVars>>

(* getUserMedia rejected: the catch block of startInterview *)
MediaReject ==
    /\ mediaPending > 0
    /\ mediaPending' = mediaPending - 1
    /\ Commit(logEvent(G, "Error accessing camera: ", 0, "error", now))
    /\ UNCHANGED <<now, isInterviewRunning, startTime, startBtnDisabled, downloadBtnDisabled, metadataPending,
                   faceTimers, faceHandleLive, objTimers, objHandleLive, mediaRecorder,
                   onstopPending, videoBlob, videoTimeouts, starts, faceInFlight, objInFlight, frameHist, reportVars>>

startVideoRecording(s, supported, t) ==
    IF supported
    THEN logEvent(s, "Video recording started.", 0, "info", t)
    ELSE logEvent(s, "Video recording not supported in this browser: ", 0, "warning", t)

startFaceDetection(s, t) ==
    logEvent(s, "Face detection initialized. Starting monitoring...", 0, "info", t)

startObjectDetection(s, t) ==
    logEvent(s, "Object detection initialized. Monitoring for prohibited items...", 0,
             "info", t)

(* videoElement.onloadedmetadata *)
LoadedMetadata(supported) ==
    /\ metadataPending > 0
    /\ metadataPending' = metadataPending - 1
    /\ startBtnDisabled' = TRUE
    /\ downloadBtnDisabled' = TRUE
    /\ isInterviewRunning' = TRUE
    /\ startTime' = now
    /\ mediaRecorder' = IF supported THEN "recording" ELSE mediaRecorder
    /\ LET s1 == startVideoRecording(G, supported, now)
           s2 == logEvent(s1, "Interview started. Camera access granted.", 0,
                          "success", now)
           s3 == startFaceDetection(s2, now)
           s4 == startObjectDetection(s3, now)
       IN Commit(s4)
    /\ faceTimers' = Append(faceTimers, now + FACE_INTERVAL)
    /\ faceHandleLive' = TRUE
    /\ objTimers' = Append(objTimers, now + OBJECT_INTERVAL)
    /\ objHandleLive' = TRUE
    /\ UNCHANGED <<now, mediaPending, onstopPending, videoBlob, videoTimeouts, starts, faceInFlight, objInFlight,
                   frameHist, reportVars>>

(* stopInterview while an interview is running *)
StopInterview ==
    /\ isInterviewRunning
    /\ faceTimers' = IF faceHandleLive THEN DropLast(faceTimers) ELSE faceTimers
    /\ faceHandleLive' = FALSE
    /\ objTimers' = IF objHandleLive THEN DropLast(objTimers) ELSE objTimers
    /\ objHandleLive' = FALSE
    /\ mediaRecorder' = IF mediaRecorder = "recording" THEN "inactive" ELSE mediaRecorder
    /\ onstopPending' = (onstopPending \/ mediaRecorder = "recording")
    /\ videoTimeouts' = IF mediaRecorder = "recording"
                        THEN Append(videoTimeouts, now + VIDEO_DOWNLOAD_DELAY)
                        ELSE videoTimeouts
    /\ startBtnDisabled' = FALSE
    /\ downloadBtnDisabled' = FALSE
    /\ isInterviewRunning' = FALSE
    /\ Commit(logEvent(G, "Interview stopped. Ready to generate report.", 0, "info", now))
    /\ UNCHANGED <<now, startTime, mediaPending, metadataPending, videoBlob, starts,
                   faceInFlight, objInFlight, frameHist, reportVars>>

(* Mutant: the early return left out, the stop logged all the same *)
StopIdleLogs ==
    /\ ~isInterviewRunning
    /\ Commit(logEvent(G, "Interview stopped. Ready to generate report.", 0, "info", now))
    /\ UNCHANGED <<now, sessionVars, faceInFlight, objInFlight, frameHist, reportVars>>

(* stopInterview while no interview is running: the early return *)
StopIdle ==
    /\ ~isInterviewRunning
    /\ UNCHANGED <<now, trackerVars, sessionVars, faceInFlight, objInFlight, frameHist, reportVars>>

(* mediaRecorder.onstop *)
RecorderStopped ==
    /\ onstopPending
    /\ onstopPending' = FALSE
    /\ videoBlob' = TRUE
    /\ Commit(logEvent(G, "Video recording completed and stored.", 0, "success", now))
    /\ UNCHANGED <<now, isInterviewRunning, startTime, startBtnDisabled,
                   downloadBtnDisabled, mediaPending, metadataPending, faceTimers,
                   faceHandleLive, objTimers, objHandleLive, mediaRecorder,
                   videoTimeouts, starts, faceInFlight, objInFlight, frameHist,
                   reportVars>>

(* The setTimeout callback of stopVideoRecording; downloadRecordedVideo *)
VideoDownloadTimeout ==
    /\ videoTimeouts # <<>>
    /\ now >= Head(videoTimeouts)
    /\ videoTimeouts' = Tail(videoTimeouts)
    /\ Commit(IF videoBlob
              THEN logEvent(G, "Video recording downloaded.", 0, "success", now)
              ELSE G)
    /\ UNCHANGED <<now, isInterviewRunning, startTime, startBtnDisabled,
                   downloadBtnDisabled, mediaPending, metadataPending, faceTimers,
                   faceHandleLive, objTimers, objHandleLive, mediaRecorder,
                   onstopPending, videoBlob, starts, faceInFlight, objInFlight,
                   frameHist, reportVars>>

(* The clock advances by d *)
Tick(d, maxTime) ==
    /\ now + d <= maxTime
    /\ now' = now + d
    /\ UNCHANGED <<trackerVars, sessionVars, faceInFlight, objInFlight, frameHist, reportVars>>

----------------------------------------------------------------------------
(* Report export: downloadReport, generatePDFReport, downloadLocalReport *)
getScoreDescription(score) ==
    IF score >= 90 THEN "EXCELLENT - No significant issues detected"
    ELSE IF score >= 70 THEN "GOOD - Minor focus issues observed"
    ELSE IF score >= 50 THEN "FAIR - Several focus and integrity concerns"
    ELSE "POOR - Significant integrity issues detected"

getRecommendation(score) ==
    IF score >= 80
    THEN "RECOMMENDED - Candidate maintained good focus and integrity throughout the interview."
    ELSE IF score >= 60
    THEN "CONDITIONALLY RECOMMENDED - Some focus issues were observed but may not disqualify the candidate."
    ELSE "NOT RECOMMENDED - Significant integrity issues suggest the interview may not reflect the candidate's authentic abilities."

(* The object literal of downloadReport; its events field is the eventLog  *)
(* array itself and is read from eventLog when it is used.                 *)
BuildReportData(s, t) ==
    [built |-> TRUE,
     candidateName |-> "Test Candidate",
     interviewDuration |-> durationText,
     startTime |-> startTime,
     endTime |-> t,
     focusIssues |-> [lookAwayCount |-> s.lookAwayCount, noFaceCount |-> s.noFaceCount,
                      multipleFacesCount |-> s.multipleFacesCount],
     prohibitedItems |-> [phonesDetected |-> s.phoneCount,
                          booksDetected |-> s.bookCount,
                          devicesDetected |-> s.deviceCount],
     integrityScore |-> Max(0, 100 - Deductions(s))]

(* JSON.stringify of an event keeps timestamp, message and type; the model *)
(* keeps the number interpolated into the message next to it.              *)
JsonEvents(log) ==
    [i \in 1..Len(log) |-> [timestamp |-> log[i].timestamp, message |-> log[i].message,
                            arg |-> log[i].arg, type |-> log[i].type]]

JsonBody(data, log) ==
    [built |-> TRUE,
     candidateName |-> data.candidateName,
     interviewDuration |-> data.interviewDuration,
     startTime |-> data.startTime,
     endTime |-> data.endTime,
     focusIssues |-> data.focusIssues,
     prohibitedItems |-> data.prohibitedItems,
     integrityScore |-> data.integrityScore,
     events |-> JsonEvents(log)]

Document(kind, data) ==
    [kind |-> kind,
     integrityScore |-> data.integrityScore,
     description |-> getScoreDescription(data.integrityScore),
     recommendation |-> getRecommendation(data.integrityScore),
     focusIssues |-> data.focusIssues,
     prohibitedItems |-> data.prohibitedItems]

downloadLocalReport(s, data, t) == logEvent(s, "Local report downloaded successfully.", 0,
                                            "success", t)

(* Mutant: a failed PDF is logged and nothing is produced in its place *)
generatePDFReportWithoutFallback(s, pdfOk, data, t) ==
    IF pdfOk
    THEN logEvent(s, "PDF report downloaded successfully.", 0, "success", t)
    ELSE logEvent(s, "Error generating PDF. Falling back to text report.", 0,
                  "error", t)

(* generatePDFReport: pdfOk is whether jsPDF builds and saves the file *)
generatePDFReport(s, pdfOk, data, t) ==
    IF pdfOk
    THEN logEvent(s, "PDF report downloaded successfully.", 0, "success", t)
    ELSE downloadLocalReport(
             logEvent(s, "Error generating PDF. Falling back to text report.", 0,
                      "error", t), data, t)

SavedDocument(pdfOk, data) == Document(IF pdfOk THEN "pdf" ELSE "txt", data)

(* downloadReport up to its await of fetch.  With no session ever started  *)
(* startTime is null and startTime.toISOString() throws after the log line *)
DownloadClick(maxDownloads) ==
    /\ ~downloadBtnDisabled
    /\ downloads < maxDownloads
    /\ downloads' = downloads + 1
    /\ LET s1 == logEvent(G, "Generating and saving proctoring report...", 0, "info", now)
       IN /\ Commit(s1)
          /\ IF startTime = NULL
             THEN UNCHANGED <<reportData, exported, postInFlight>>
             ELSE /\ reportData' = BuildReportData(s1, now)
                  /\ exported' = JsonBody(reportData', s1.eventLog)
                  /\ postInFlight' = Append(postInFlight,
                                             [data |-> reportData', body |-> exported'])
    /\ UNCHANGED <<now, sessionVars, faceInFlight, objInFlight, frameHist, durationText,
                   postResponses, documents, reports, files, nextId, getResponse, deleteResponse>>

(* fetch rejected, or the server never answered 2xx: the catch block *)
FetchFail(pdfOk) ==
    /\ postInFlight # <<>>
    /\ postInFlight' = Tail(postInFlight)
    /\ LET s1 == logEvent(G, "Error saving report to server. Generating local PDF...",
                          0, "error", now)
       IN Commit(generatePDFReport(s1, pdfOk, Head(postInFlight).data, now))
    /\ documents' = Append(documents, SavedDocument(pdfOk, Head(postInFlight).data))
    /\ UNCHANGED <<now, sessionVars, faceInFlight, objInFlight, frameHist, durationText,
                   downloads, reportData, exported, postResponses, reports, files,
                   nextId, getResponse, deleteResponse>>

(* The 201 response arrived: response.ok *)
PostResponse(pdfOk) ==
    /\ postResponses # <<>>
    /\ postResponses' = Tail(postResponses)
    /\ LET s1 == logEvent(G, "Report saved successfully. Generating PDF...", 0,
                          "success", now)
       IN Commit(generatePDFReport(s1, pdfOk, Head(postResponses).data, now))
    /\ documents' = Append(documents, SavedDocument(pdfOk, Head(postResponses).data))
    /\ UNCHANGED <<now, sessionVars, faceInFlight, objInFlight, frameHist, durationText,
                   downloads, reportData, exported, postInFlight, reports, files,
                   nextId, getResponse, deleteResponse>>

----------------------------------------------------------------------------
(* Report server.  a || b yields b when a is 0, "", null or undefined; the *)
(* strings and objects of a body built by downloadReport are never falsy.  *)
OrDefault(value, default) == IF value = 0 THEN default ELSE value

(* The destructuring of req.body leaves a field the body omits undefined,  *)
(* and undefined || default is the default.  Names are strings (empty: ""); *)
(* the duration and the two times are strings held as numbers, the empty   *)
(* string as NULL; objects and arrays are never falsy.                     *)
Sent(body, name) == name \in DOMAIN body

TextOr(body, name, empty, default) ==
    IF Sent(body, name) /\ body[name] # empty THEN body[name] ELSE default

NumberOr(body, name, default) ==
    IF Sent(body, name) THEN OrDefault(body[name], default) ELSE default

ObjectOr(body, name, default) == IF Sent(body, name) THEN body[name] ELSE default

(* Mutant: the body stored as it was sent, with an id and a timestamp *)
StoredReportAsSent(id, body, t) ==
    [f \in DOMAIN body \cup {"id", "timestamp"} |->
        IF f = "id" THEN id ELSE IF f = "timestamp" THEN t ELSE body[f]]

StoredReport(id, body, t) ==
    [id |-> id,
     timestamp |-> t,
     candidateName |-> TextOr(body, "candidateName", "", "Test Candidate"),
     interviewDuration |-> TextOr(body, "interviewDuration", NULL, 0),
     startTime |-> TextOr(body, "startTime", NULL, t),
     endTime |-> TextOr(body, "endTime", NULL, t),
     focusIssues |-> ObjectOr(body, "focusIssues",
                              [lookAwayCount |-> 0, noFaceCount |-> 0,
                               multipleFacesCount |-> 0]),
     prohibitedItems |-> ObjectOr(body, "prohibitedItems",
                                  [phonesDetected |-> 0, booksDetected |-> 0,
                                   devicesDetected |-> 0]),
     integrityScore |-> NumberOr(body, "integrityScore", 100),
     events |-> ObjectOr(body, "events", <<>>)]

(* app.post('/api/reports'); writeOk is whether writeFileSync succeeds *)
ServerPost(writeOk) ==
    /\ postInFlight # <<>>
    /\ postInFlight' = Tail(postInFlight)
    /\ reports' = Append(reports, StoredReport(nextId, Head(postInFlight).body, now))
    /\ files' = IF writeOk THEN files \cup {nextId} ELSE files
    /\ nextId' = nextId + 1
    /\ postResponses' = Append(postResponses, [status |-> 201, id |-> nextId,
                                               data |-> Head(postInFlight).data])
    /\ UNCHANGED <<now, trackerVars, sessionVars, faceInFlight, objInFlight, frameHist,
                   durationText, downloads, reportData, exported, documents,
                   getResponse, deleteResponse>>

(* Some HTTP client sends POST /api/reports with a JSON object of its own *)
ClientPost(body, maxPosts) ==
    /\ (nextId - 1) + Len(postInFlight) < maxPosts
    /\ postInFlight' = Append(postInFlight, [data |-> NoReport, body |-> body])
    /\ UNCHANGED <<now, trackerVars, sessionVars, faceInFlight, objInFlight, frameHist,
                   durationText, downloads, reportData, exported, postResponses,
                   documents, reports, files, nextId, getResponse, deleteResponse>>

(* app.get('/api/reports/:id') *)
ServerGet(id) ==
    /\ getResponse' =
           IF \E i \in DOMAIN reports : reports[i].id = id
           THEN [status |-> 200,
                 body |-> reports[CHOOSE i \in DOMAIN reports :
                                      /\ reports[i].id = id
                                      /\ \A j \in 1..(i - 1) : reports[j].id # id]]
           ELSE [status |-> 404]
    /\ UNCHANGED <<now, trackerVars, sessionVars, faceInFlight, objInFlight, frameHist,
                   durationText, downloads, reportData, exported, postInFlight,
                   postResponses, documents, reports, files, nextId, deleteResponse>>

(* Mutant: the report is looked up and its file removed, the array is left *)
(* as it is                                                                *)
ServerDeleteFileOnly(id, unlinkOk) ==
    /\ IF \E i \in DOMAIN reports : reports[i].id = id
       THEN /\ reports' = reports
            /\ files' = IF unlinkOk THEN files \ {id} ELSE files
            /\ deleteResponse' = [status |-> IF unlinkOk \/ id \notin files
                                              THEN 200 ELSE 500, id |-> id]
       ELSE /\ deleteResponse' = [status |-> 404, id |-> id]
            /\ UNCHANGED <<reports, files>>
    /\ UNCHANGED <<now, trackerVars, sessionVars, faceInFlight, objInFlight, frameHist,
                   durationText, downloads, reportData, exported, postInFlight,
                   postResponses, documents, nextId, getResponse>>

(* app.delete('/api/reports/:id'); unlinkOk is whether unlinkSync succeeds *)
(* when the file exists. The report is spliced out before the file is      *)
(* touched, so a failing unlink answers 500 with the array already changed *)
ServerDelete(id, unlinkOk) ==
    /\ IF \E i \in DOMAIN reports : reports[i].id = id
       THEN LET reportIndex == CHOOSE i \in DOMAIN reports :
                                  /\ reports[i].id = id
                                  /\ \A j \in 1..(i - 1) : reports[j].id # id
            IN /\ reports' = SubSeq(reports, 1, reportIndex - 1)
                                \o SubSeq(reports, reportIndex + 1, Len(reports))
               /\ files' = IF unlinkOk THEN files \ {id} ELSE files
               /\ deleteResponse' = [status |-> IF unlinkOk \/ id \notin files
                                                 THEN 200 ELSE 500, id |-> id]
       ELSE /\ deleteResponse' = [status |-> 404, id |-> id]
            /\ UNCHANGED <<reports, files>>
    /\ UNCHANGED <<now, trackerVars, sessionVars, faceInFlight, objInFlight, frameHist,
                   durationText, downloads, reportData, exported, postInFlight,
                   postResponses, documents, nextId, getResponse>>

(* app.get('/api/reports'): a copy of the array, newest timestamp first;   *)
(* the sort is stable, so reports of one timestamp keep their order        *)
RECURSIVE InsertNewestFirst(_, _)
InsertNewestFirst(sorted, r) ==
    IF sorted = <<>> THEN <<r>>
    ELSE IF r.timestamp > Head(sorted).timestamp THEN <<r>> \o sorted
    ELSE <<Head(sorted)>> \o InsertNewestFirst(Tail(sorted), r)

RECURSIVE SortedReports(_)
SortedReports(rs) ==
    IF rs = <<>> THEN <<>>
    ELSE InsertNewestFirst(SortedReports(SubSeq(rs, 1, Len(rs) - 1)), rs[Len(rs)])

(* app.get('/api/health') *)
HealthResponse == [status |-> "OK", reportsCount |-> Len(reports)]

----------------------------------------------------------------------------
(* The first statement of both setInterval callbacks:                      *)
(* if (!isInterviewRunning) return;                                        *)
(* Mutant: the callback goes on to the inference whatever the flag says    *)
CallbackProceedsAlways == TRUE

(* Mutant: a callback returns while an inference of either channel is     *)
(* pending                                                                 *)
CallbackProceedsWhenIdle == isInterviewRunning /\ faceInFlight = 0 /\ objInFlight = 0

CallbackProceeds == isInterviewRunning

(* Face channel: the setInterval callback of startFaceDetection, cut at its await *)
FaceTimerFire(i, cap) ==
    /\ i \in 1..Len(faceTimers)
    /\ now >= faceTimers[i]
    /\ faceTimers' = [faceTimers EXCEPT ![i] = now + FACE_INTERVAL]
    /\ IF CallbackProceeds
       THEN faceInFlight < cap /\ faceInFlight' = faceInFlight + 1
       ELSE faceInFlight' = faceInFlight
    /\ UNCHANGED <<now, trackerVars, isInterviewRunning, startTime, startBtnDisabled, downloadBtnDisabled,
                   mediaPending, metadataPending, faceHandleLive, objTimers,
                   objHandleLive, mediaRecorder, onstopPending, videoBlob, videoTimeouts, starts, objInFlight,
                   frameHist, reportVars>>

NextAwayRun(faces) ==
    IF /\ awayRun # NULL
       /\ Len(faces) = 1
       /\ RawLookingAway(faces[1])
       /\ (awayRun = 0 \/ now = lastFrameTime + FACE_INTERVAL)
    THEN awayRun + 1
    ELSE NULL

NextMultiPhase(faces) ==
    IF Len(faces) > 1 THEN (IF multiPhase \in {0, 1} THEN 1 ELSE 3)
    ELSE IF Len(faces) = 1 /\ multiPhase = 1 THEN 2
    ELSE multiPhase

(* estimateFaces resolved with a list of faces *)
FaceResolve(faces) ==
    /\ faceInFlight > 0
    /\ faceInFlight' = faceInFlight - 1
    /\ Commit(processFaceDetectionResults([G EXCEPT !.gazeDebug = ""], faces, now))
    /\ lastFaces' = faces
    /\ lastFrameTime' = now
    /\ awayRun' = NextAwayRun(faces)
    /\ zeroRunStart' = IF Len(faces) = 0
                       THEN (IF zeroRunStart = NULL THEN now ELSE zeroRunStart)
                       ELSE NULL
    /\ multiPhase' = NextMultiPhase(faces)
    /\ UNCHANGED <<now, sessionVars, objInFlight, lastPredictions, reportVars>>

(* Mutant: a failed estimateFaces handled as a frame with no face *)
FaceRejectAsNoFace ==
    /\ faceInFlight > 0
    /\ faceInFlight' = faceInFlight - 1
    /\ Commit(processFaceDetectionResults(G, <<>>, now))
    /\ UNCHANGED <<now, sessionVars, objInFlight, frameHist, reportVars>>

(* estimateFaces rejected: the catch block only writes to the console *)
FaceReject ==
    /\ faceInFlight > 0
    /\ faceInFlight' = faceInFlight - 1
    /\ UNCHANGED <<now, trackerVars, sessionVars, objInFlight, frameHist, reportVars>>

(* Object channel: the setInterval callback of startObjectDetection *)
ObjTimerFire(i, cap) ==
    /\ i \in 1..Len(objTimers)
    /\ now >= objTimers[i]
    /\ objTimers' = [objTimers EXCEPT ![i] = now + OBJECT_INTERVAL]
    /\ IF CallbackProceeds
       THEN objInFlight < cap /\ objInFlight' = objInFlight + 1
                              /\ lastPredictions' = <<>>
       ELSE objInFlight' = objInFlight /\ UNCHANGED lastPredictions
    /\ UNCHANGED <<now, trackerVars, isInterviewRunning, startTime, startBtnDisabled, downloadBtnDisabled,
                   mediaPending, metadataPending, faceTimers, faceHandleLive,
                   objHandleLive, mediaRecorder, onstopPending, videoBlob, videoTimeouts, starts, faceInFlight,
                   lastFaces, lastFrameTime, awayRun, zeroRunStart, multiPhase, reportVars>>

ObjResolve(predictions) ==
    /\ objInFlight > 0
    /\ objInFlight' = objInFlight - 1
    /\ Commit(processObjectDetectionResults(G, predictions, now))
    /\ lastPredictions' = predictions
    /\ UNCHANGED <<now, sessionVars, faceInFlight, lastFaces, lastFrameTime, awayRun,
                   zeroRunStart, multiPhase, reportVars>>

ObjReject ==
    /\ objInFlight > 0
    /\ objInFlight' = objInFlight - 1
    /\ UNCHANGED <<now, trackerVars, sessionVars, faceInFlight, frameHist, reportVars>>

----------------------------------------------------------------------------
(* Gaze specification: one session, the face channel alone, every tick on  *)
(* its 200 ms cadence or later, inference settled before the next is due.  *)
GazeFrames == {<<FocusedFace>>, <<AwayFace>>}

NextGaze ==
    \/ StartClick(1)
    \/ MediaResolve
    \/ LoadedMetadata(TRUE)
    \/ \E i \in 1..1 : FaceTimerFire(i, 1)
    \/ \E f \in GazeFrames : FaceResolve(f)
    \/ (faceInFlight = 0 /\ isInterviewRunning /\ Tick(FACE_INTERVAL, GazeMaxTime))

SpecGaze == Init /\ [][NextGaze]_vars

(* A candidate who looks away throughout, followed long enough for an     *)
(* episode to fire twice                                                  *)
NextGazeLong ==
    \/ StartClick(1)
    \/ MediaResolve
    \/ LoadedMetadata(TRUE)
    \/ \E i \in 1..1 : FaceTimerFire(i, 1)
    \/ FaceResolve(<<AwayFace>>)
    \/ (faceInFlight = 0 /\ isInterviewRunning /\ Tick(FACE_INTERVAL, GazeLongMaxTime))

SpecGazeLong == Init /\ [][NextGazeLong]_vars

(* Session specification: start, stop and restart, both channels with      *)
(* overlapping ticks and failing inference.                                *)
SessionFrames == {<<>>, <<FocusedFace>>, <<AwayFace, FocusedFace>>}
SessionPredictions == {<<>>, <<[class |-> "cell phone", score |-> 90]>>}

Next ==
    \/ StartClick(MaxStarts)
    \/ MediaResolve
    \/ LoadedMetadata(TRUE)
    \/ StopInterview
    \/ StopIdle
    \/ RecorderStopped
    \/ VideoDownloadTimeout
    \/ \E i \in 1..MaxStarts : FaceTimerFire(i, MaxInFlight)
    \/ \E f \in SessionFrames : FaceResolve(f)
    \/ FaceReject
    \/ \E i \in 1..MaxStarts : ObjTimerFire(i, MaxInFlight)
    \/ \E p \in SessionPredictions : ObjResolve(p)
    \/ ObjReject
    \/ \E d \in {FACE_INTERVAL, OBJECT_INTERVAL} : Tick(d, SessionMaxTime)

Spec == Init /\ [][Next]_vars

(* Start specification: starting and stopping with a camera that may be   *)
(* refused and a recorder that may be unsupported, no detection ticks.     *)
NextStart ==
    \/ StartClick(MaxStarts)
    \/ MediaResolve
    \/ MediaReject
    \/ \E supported \in BOOLEAN : LoadedMetadata(supported)
    \/ StopInterview
    \/ StopIdle
    \/ RecorderStopped
    \/ VideoDownloadTimeout
    \/ Tick(VIDEO_DOWNLOAD_DELAY, SessionMaxTime)

SpecStart == Init /\ [][NextStart]_vars

(* No-face specification: one session, frames with no face or one focused  *)
(* face, the clock in steps of one second.                                 *)
NoFaceFrames == {<<>>, <<FocusedFace>>}

NextNoFace ==
    \/ StartClick(1)
    \/ MediaResolve
    \/ LoadedMetadata(TRUE)
    \/ \E i \in 1..1 : FaceTimerFire(i, 1)
    \/ \E f \in NoFaceFrames : FaceResolve(f)
    \/ (faceInFlight = 0 /\ isInterviewRunning /\ Tick(NoFaceStep, NoFaceMaxTime))

SpecNoFace == Init /\ [][NextNoFace]_vars

(* Object specification: one session, the object channel alone, a class   *)
(* for each counter and one the filter does not name, at confidences       *)
(* around 0.6.                                                             *)
ObjClasses == {"cell phone", "book", "laptop", "person"}
ObjScores == {59, 60, 61}
ObjDetections == [class : ObjClasses, score : ObjScores]
ObjPredictions == UNION {[1..n -> ObjDetections] : n \in 0..MaxPredictions}

NextObj ==
    \/ StartClick(1)
    \/ MediaResolve
    \/ LoadedMetadata(TRUE)
    \/ \E i \in 1..1 : ObjTimerFire(i, 1)
    \/ \E p \in ObjPredictions : ObjResolve(p)
    \/ (objInFlight = 0 /\ isInterviewRunning /\ Tick(OBJECT_INTERVAL, ObjMaxTime))

SpecObj == Init /\ [][NextObj]_vars

(* Persistent-object specification: one session, the object channel alone, *)
(* ticks that each show nothing or one object of any of the six prohibited *)
(* classes or a person, at confidence 0.61 or 0.60.                        *)
ObjRunPredictions ==
    {<<>>} \cup {<<[class |-> c, score |-> sc]>> :
                    c \in PROHIBITED_ITEMS \cup {"person"}, sc \in {60, 61}}

NextObjRun ==
    \/ StartClick(1)
    \/ MediaResolve
    \/ LoadedMetadata(TRUE)
    \/ \E i \in 1..1 : ObjTimerFire(i, 1)
    \/ \E p \in ObjRunPredictions : ObjResolve(p)
    \/ (objInFlight = 0 /\ isInterviewRunning /\ Tick(OBJECT_INTERVAL, ObjRunMaxTime))

SpecObjRun == Init /\ [][NextObjRun]_vars

(* Two-channel specification: one session that is not stopped, both       *)
(* channels polling, each with at most one inference pending, time passing *)
(* whether or not an inference is pending.                                 *)
NextChannels ==
    \/ StartClick(1)
    \/ MediaResolve
    \/ LoadedMetadata(TRUE)
    \/ \E i \in 1..1 : FaceTimerFire(i, 1)
    \/ \E f \in SessionFrames : FaceResolve(f)
    \/ FaceReject
    \/ \E i \in 1..1 : ObjTimerFire(i, 1)
    \/ \E p \in SessionPredictions : ObjResolve(p)
    \/ ObjReject
    \/ \E d \in {FACE_INTERVAL, OBJECT_INTERVAL} : Tick(d, ChannelsMaxTime)

SpecChannels == Init /\ [][NextChannels]_vars

(* Several-faces specification: one session, the face channel alone,      *)
(* frames of two faces that both look away or of which the first does,     *)
(* up to two inferences pending, results processed at any later time, the  *)
(* clock read once a second.                                               *)
GazeMultiFrames == {<<AwayFace, AwayFace>>, <<AwayFace, FocusedFace>>}

NextGazeMulti ==
    \/ StartClick(1)
    \/ MediaResolve
    \/ LoadedMetadata(TRUE)
    \/ \E i \in 1..1 : FaceTimerFire(i, 2)
    \/ \E f \in GazeMultiFrames : FaceResolve(f)
    \/ (isInterviewRunning /\ Tick(GazeMultiStep, GazeMultiMaxTime))

SpecGazeMulti == Init /\ [][NextGazeMulti]_vars

(* Restart specification: sessions started and stopped one after the      *)
(* other (no second click while a start is under way), the face channel    *)
(* alone, every result processed before the clock                          *)
(* moves or the session is stopped, the clock read every 3 seconds.        *)
NextRestart ==
    \/ (mediaPending = 0 /\ metadataPending = 0 /\ StartClick(MaxStarts))
    \/ MediaResolve
    \/ LoadedMetadata(TRUE)
    \/ (faceInFlight = 0 /\ StopInterview)
    \/ \E i \in 1..MaxStarts : FaceTimerFire(i, 1)
    \/ \E f \in {<<>>, <<AwayFace>>} : FaceResolve(f)
    \/ (faceInFlight = 0 /\ Tick(RestartStep, RestartMaxTime))

SpecRestart == Init /\ [][NextRestart]_vars

(* Gap specification: one session, the face channel alone, frames of no   *)
(* face or of one face that looks at the screen or away, every result      *)
(* processed before the clock moves, the clock read once a second.         *)
GazeGapFrames == {<<>>, <<FocusedFace>>, <<AwayFace>>}

NextGazeGap ==
    \/ StartClick(1)
    \/ MediaResolve
    \/ LoadedMetadata(TRUE)
    \/ \E i \in 1..1 : FaceTimerFire(i, 1)
    \/ \E f \in GazeGapFrames : FaceResolve(f)
    \/ (faceInFlight = 0 /\ isInterviewRunning /\ Tick(GazeGapStep, GazeGapMaxTime))

SpecGazeGap == Init /\ [][NextGazeGap]_vars

(* Malformed-input specification: one session, the face channel alone,    *)
(* frames of one face whose bounding box is 100 wide or collapsed to       *)
(* width 0, with each eye centre off the nose or on it.                    *)
EyeOnNose == <<50, 50, 50>>
BoxFace(rightEye, leftEye, left, right) ==
    [rightEye |-> rightEye, leftEye |-> leftEye, nose |-> 50,
     topLeft |-> left, bottomRight |-> right]
MalformedFrames ==
    { <<BoxFace(r, l, b[1], b[2])>> :
          r \in {FocusedFace.rightEye, EyeOnNose},
          l \in {FocusedFace.leftEye, EyeOnNose},
          b \in {<<0, 100>>, <<50, 50>>} }

NextMalformed ==
    \/ StartClick(1)
    \/ MediaResolve
    \/ LoadedMetadata(TRUE)
    \/ \E i \in 1..1 : FaceTimerFire(i, 1)
    \/ \E f \in MalformedFrames : FaceResolve(f)
    \/ (faceInFlight = 0 /\ isInterviewRunning /\ Tick(FACE_INTERVAL, MalformedMaxTime))

SpecMalformed == Init /\ [][NextMalformed]_vars

(* Classifier specification: one session, the face channel alone, frames  *)
(* of one face 100 or 200 wide whose eye centres lie 0 to 13 to the right  *)
(* and to the left of the nose (0.12 of the width is 12 or 24).            *)
EyeAt(x) == <<x - 2, x, x + 2>>
ClassifierOffsets == {0, 7, 10, 11, 12, 13}
ClassifierFrames ==
    { <<BoxFace(EyeAt(50 - r), EyeAt(50 + l), 50 - h, 50 + h)>> :
          r \in ClassifierOffsets, l \in ClassifierOffsets, h \in {50, 100} }

NextClassifier ==
    \/ StartClick(1)
    \/ MediaResolve
    \/ LoadedMetadata(TRUE)
    \/ \E i \in 1..1 : FaceTimerFire(i, 1)
    \/ \E f \in ClassifierFrames : FaceResolve(f)
    \/ (faceInFlight = 0 /\ isInterviewRunning /\ Tick(FACE_INTERVAL, ClassifierMaxTime))

SpecClassifier == Init /\ [][NextClassifier]_vars

(* Server specification: the report server alone, posted bodies that hold *)
(* every field, lack one field, lack all fields, or hold a falsy value.    *)
BodyFields == {"candidateName", "interviewDuration", "startTime", "endTime",
               "focusIssues", "prohibitedItems", "integrityScore", "events"}
FullBody ==
    [candidateName |-> "Ada", interviewDuration |-> 65, startTime |-> 1000,
     endTime |-> 66000,
     focusIssues |-> [lookAwayCount |-> 1, noFaceCount |-> 0, multipleFacesCount |-> 0],
     prohibitedItems |-> [phonesDetected |-> 1, booksDetected |-> 0,
                          devicesDetected |-> 0],
     integrityScore |-> 88,
     events |-> <<[timestamp |-> 2, message |-> "Mobile phone detected!", arg |-> 90,
                   type |-> "error"]>>]
Omit(body, fields) == [f \in (DOMAIN body) \ fields |-> body[f]]
ServerBodies ==
    {Omit(FullBody, {})} \cup {Omit(FullBody, {f}) : f \in BodyFields}
    \cup {Omit(FullBody, BodyFields)}
    \cup {[FullBody EXCEPT !.integrityScore = 0], [FullBody EXCEPT !.candidateName = ""],
          [FullBody EXCEPT !.startTime = NULL]}

NextServer ==
    \/ \E body \in ServerBodies : ClientPost(body, MaxPosts)
    \/ \E writeOk \in BOOLEAN : ServerPost(writeOk)
    \/ \E id \in 1..MaxPosts : ServerGet(id)

SpecServer == Init /\ [][NextServer]_vars

(* Delete specification: the report server alone, reports posted at       *)
(* different times with a file write that may fail, deleted by an id that  *)
(* is stored, was deleted or was never handed out, with an unlink that may *)
(* fail, and fetched by ids that were handed out.                          *)
NextDelete ==
    \/ \E body \in {FullBody, Omit(FullBody, BodyFields)} : ClientPost(body, MaxPosts)
    \/ \E writeOk \in BOOLEAN : ServerPost(writeOk)
    \/ \E id \in 1..MaxPosts, unlinkOk \in BOOLEAN : ServerDelete(id, unlinkOk)
    \/ \E id \in 1..(nextId - 1) : ServerGet(id)
    \/ Tick(DeleteStep, DeleteMaxTime)

SpecDelete == Init /\ [][NextDelete]_vars

(* Score specification: a stopped session with any counters, its report   *)
(* downloaded, posted to the server and read back.                         *)
Repeat(n, entry) == [i \in 1..n |-> entry]

Entry(t, message, arg, type) ==
    [timestamp |-> FormatTime(t), message |-> message, arg |-> arg, type |-> type]

StoppedLog(la, nf, mf, ph, bk, dv, stopTime) ==
    InitLog
    \o << Entry(0, "Starting interview process...", 0, "info"),
          Entry(0, "Video recording started.", 0, "info"),
          Entry(0, "Interview started. Camera access granted.", 0, "success"),
          Entry(0, "Face detection initialized. Starting monitoring...", 0, "info"),
          Entry(0, "Object detection initialized. Monitoring for prohibited items...",
                0, "info") >>
    \o Repeat(mf, Entry(200, "Multiple faces detected. Possible cheating attempt!", 2,
                        "error"))
    \o Repeat(ph, Entry(500, "Mobile phone detected!", 90, "error"))
    \o Repeat(bk, Entry(500, "Book detected!", 90, "error"))
    \o Repeat(dv, Entry(500, DeviceMessage("laptop"), 90, "error"))
    \o Repeat(IF la > 0 THEN 1 ELSE 0,
              Entry(1000, "Candidate started looking away from screen.", 0, "warning"))
    \o [k \in 1..la |-> Entry(1000 + 2200 * k,
                              "Candidate looked away for more than 2 seconds!", k,
                              "warning")]
    \o Repeat(nf, Entry(16200, "No face detected for more than 10 seconds!", 0, "error"))
    \o << Entry(stopTime, "Interview stopped. Ready to generate report.", 0, "info"),
          Entry(stopTime, "Video recording completed and stored.", 0, "success"),
          Entry(stopTime + VIDEO_DOWNLOAD_DELAY, "Video recording downloaded.", 0,
                "success") >>

InitScore ==
    \E la \in 0..ScoreMaxLookAway, nf \in 0..1, mf \in 0..1,
       ph \in 0..ScoreMaxItems, bk \in 0..ScoreMaxItems, dv \in 0..ScoreMaxItems :
        LET stopTime == IF nf = 1 THEN 17000 ELSE 9000
            s == [lookAwayCount |-> la, noFaceCount |-> nf, multipleFacesCount |-> mf,
                  gazeDirectionHistory |-> <<>>,
                  phoneCount |-> ph, bookCount |-> bk, deviceCount |-> dv,
                  lookingAwayStartTime |-> IF la > 0 THEN 1000 + 2200 * la ELSE NULL,
                  noFaceStartTime |-> IF nf = 1 THEN 16200 ELSE 8000,
                  eventLog |-> StoppedLog(la, nf, mf, ph, bk, dv, stopTime),
                  dom |-> InitDom,
                  focusIndicator |-> "No Face Detected", gazeDebug |-> ""]
            shown == updateStatusIndicators(s)
        IN /\ now = stopTime
           /\ lookAwayCount = la /\ noFaceCount = nf /\ multipleFacesCount = mf
           /\ gazeDirectionHistory = <<>>
           /\ phoneCount = ph /\ bookCount = bk /\ deviceCount = dv
           /\ lookingAwayStartTime = s.lookingAwayStartTime
           /\ noFaceStartTime = s.noFaceStartTime
           /\ eventLog = s.eventLog
           /\ dom = shown.dom
           /\ focusIndicator = s.focusIndicator /\ gazeDebug = ""
           /\ isInterviewRunning = FALSE /\ startTime = 0
           /\ startBtnDisabled = FALSE /\ downloadBtnDisabled = FALSE
           /\ mediaPending = 0 /\ metadataPending = 0
           /\ faceTimers = <<>> /\ faceHandleLive = FALSE /\ faceInFlight = 0
           /\ objTimers = <<>> /\ objHandleLive = FALSE /\ objInFlight = 0
           /\ mediaRecorder = "inactive" /\ onstopPending = FALSE
           /\ videoBlob = TRUE /\ videoTimeouts = <<>>
           /\ starts = 1
           /\ lastFaces = <<>> /\ lastFrameTime = stopTime - 200
           /\ awayRun = NULL /\ zeroRunStart = 8000
           /\ multiPhase = IF mf = 1 THEN 2 ELSE 0
           /\ lastPredictions = <<>>
           /\ InitReport

NextScore ==
    \/ DownloadClick(1)
    \/ \E pdfOk \in BOOLEAN : FetchFail(pdfOk)
    \/ \E writeOk \in BOOLEAN : ServerPost(writeOk)
    \/ \E pdfOk \in BOOLEAN : PostResponse(pdfOk)
    \/ \E id \in 1..2 : ServerGet(id)

SpecScore == InitScore /\ [][NextScore]_vars

----------------------------------------------------------------------------
(* C1 as stated: after the first 20 frames of a fresh session, each one    *)
(* looking-away face, 200 ms apart, lookAwayCount has gone from 0 to 2.    *)
C1_TwoAfterTwentyFrames == awayRun = 20 => lookAwayCount = 2

(* C1 amended: over those 20 frames lookAwayCount goes from 0 to exactly 1 *)
(* (the episode opens at the 5th frame and fires once, at the 16th).       *)
C1_OneAfterTwentyFrames == awayRun = 20 => lookAwayCount = 1

C1_Witness == awayRun = 20 /\ lookAwayCount = 1 /\ Len(gazeDirectionHistory) = 8

(* C4: after a sample is pushed, the frame is judged consistently looking  *)
(* away iff at least 5 of the retained samples are true; so never with     *)
(* fewer than 5 samples.                                                   *)
C4_FiveOfWindow ==
    gazeDebug \in {"LOOKING AWAY", "FOCUSED"} =>
        /\ (gazeDebug = "LOOKING AWAY") <=>
               (Cardinality({i \in DOMAIN gazeDirectionHistory :
                                 gazeDirectionHistory[i]}) >= 5)
        /\ (Len(gazeDirectionHistory) < 5 => gazeDebug = "FOCUSED")

C4_Witness ==
    /\ Len(gazeDirectionHistory) = 8
    /\ Cardinality({i \in 1..8 : gazeDirectionHistory[i]}) = 5
    /\ gazeDebug = "LOOKING AWAY"

C3_MultipleFacesCountedOnce ==
    /\ multipleFacesCount <= 1
    /\ (multiPhase = 0 => multipleFacesCount = 0)
    /\ (multiPhase >= 1 => multipleFacesCount = 1)

C3_Witness == multiPhase = 3 /\ multipleFacesCount = 1

(* C9 as stated: when a session starts, the six counters are 0, the gaze   *)
(* history is empty and the log holds nothing of an earlier session.       *)
C9_StartResetsSession ==
    [][(~isInterviewRunning /\ isInterviewRunning') =>
          /\ lookAwayCount' = 0 /\ noFaceCount' = 0 /\ multipleFacesCount' = 0
          /\ phoneCount' = 0 /\ bookCount' = 0 /\ deviceCount' = 0
          /\ gazeDirectionHistory' = <<>>
          /\ \A i \in DOMAIN eventLog' :
                 eventLog'[i].message # "Interview stopped. Ready to generate report."
      ]_vars

(* C10 as stated: at most one tick of a channel is in flight at any time.  *)
C10_OneTickInFlight == faceInFlight <= 1 /\ objInFlight <= 1

(* C5: an object tick adds to the counters exactly the detections whose    *)
(* class is one of the six prohibited ones and whose confidence is above   *)
(* 0.6; each such cell phone adds 1 to phoneCount, one at 0.59 or 0.60     *)
(* adds nothing.                                                           *)
C5_CountsQualifyingDetections ==
    [][objInFlight' < objInFlight =>
          LET p == lastPredictions'
              qualifying == {i \in DOMAIN p :
                                /\ p[i].class \in {"cell phone", "book", "laptop",
                                                   "keyboard", "mouse", "remote"}
                                /\ p[i].score > 60}
              phones == {i \in qualifying : p[i].class = "cell phone"}
          IN /\ (phoneCount' + bookCount' + deviceCount')
                    - (phoneCount + bookCount + deviceCount) = Cardinality(qualifying)
             /\ phoneCount' - phoneCount = Cardinality(phones)
             /\ bookCount' >= bookCount /\ deviceCount' >= deviceCount
             /\ UNCHANGED <<lookAwayCount, noFaceCount, multipleFacesCount>>
      ]_vars

C5_Witness ==
    /\ lastPredictions = << [class |-> "cell phone", score |-> 60],
                            [class |-> "cell phone", score |-> 61] >>
    /\ phoneCount = 1 /\ bookCount = 0 /\ deviceCount = 0

C7_LabelThresholds ==
    /\ dom.score \in 0..100
    /\ (dom.label = "Excellent") = (dom.score >= 90)
    /\ (dom.label = "Good") = (dom.score >= 70 /\ dom.score < 90)
    /\ (dom.label = "Fair") = (dom.score >= 50 /\ dom.score < 70)
    /\ (dom.label = "Poor") = (dom.score < 50)
    /\ \A i \in DOMAIN documents :
         LET d == documents[i]
             score == d.integrityScore
         IN /\ (d.description = "EXCELLENT - No significant issues detected")
                   = (score >= 90)
            /\ (d.description = "GOOD - Minor focus issues observed")
                   = (score >= 70 /\ score < 90)
            /\ (d.description = "FAIR - Several focus and integrity concerns")
                   = (score >= 50 /\ score < 70)
            /\ (d.description = "POOR - Significant integrity issues detected")
                   = (score < 50)
            /\ (d.recommendation = "RECOMMENDED - Candidate maintained good focus and integrity throughout the interview.")
                   = (score >= 80)
            /\ (d.recommendation = "CONDITIONALLY RECOMMENDED - Some focus issues were observed but may not disqualify the candidate.")
                   = (score >= 60 /\ score < 80)
            /\ (d.recommendation = "NOT RECOMMENDED - Significant integrity issues suggest the interview may not reflect the candidate's authentic abilities.")
                   = (score < 60)

C7_Witness ==
    /\ dom.score = 70 /\ dom.label = "Good"
    /\ documents # <<>>
    /\ documents[1].description = "GOOD - Minor focus issues observed"
    /\ documents[1].recommendation = "CONDITIONALLY RECOMMENDED - Some focus issues were observed but may not disqualify the candidate."

(* C8 as stated: the report read back from the server has the counters,   *)
(* the events in order and the integrityScore of the exported payload.     *)
C8_RoundTrip ==
    getResponse.status = 200 =>
        /\ getResponse.body.focusIssues = exported.focusIssues
        /\ getResponse.body.prohibitedItems = exported.prohibitedItems
        /\ getResponse.body.events = exported.events
        /\ getResponse.body.integrityScore = exported.integrityScore

----------------------------------------------------------------------------
(* C11: stopInterview clears the two timers its handles name, and a timer  *)
(* callback that runs while no interview is running starts no inference    *)
(* and changes none of the six counters.                                   *)
C11_NoTickAfterStop ==
    [][/\ (isInterviewRunning /\ ~isInterviewRunning') =>
              /\ ~faceHandleLive' /\ ~objHandleLive'
              /\ (faceHandleLive => Len(faceTimers') = Len(faceTimers) - 1)
              /\ (objHandleLive => Len(objTimers') = Len(objTimers) - 1)
       /\ (/\ ~isInterviewRunning
           /\ \E i \in 1..MaxStarts :
                  FaceTimerFire(i, MaxInFlight) \/ ObjTimerFire(i, MaxInFlight)) =>
              /\ faceInFlight' = faceInFlight /\ objInFlight' = objInFlight
              /\ UNCHANGED <<lookAwayCount, noFaceCount, multipleFacesCount,
                             phoneCount, bookCount, deviceCount>>
      ]_vars

(* A face timer that outlived the stop has fired after it: its callback    *)
(* ran at a time later than the last stop, and nothing is in flight.       *)
C11_Witness ==
    /\ ~isInterviewRunning
    /\ videoTimeouts # <<>>
    /\ faceInFlight = 0 /\ objInFlight = 0
    /\ \E i \in DOMAIN faceTimers :
           faceTimers[i] - FACE_INTERVAL
               > videoTimeouts[Len(videoTimeouts)] - VIDEO_DOWNLOAD_DELAY
    /\ lookAwayCount + noFaceCount + multipleFacesCount = 0
    /\ phoneCount + bookCount + deviceCount = 0

(* C12 as stated: from the completion of stopInterview until the next      *)
(* start the six counters, the gaze history, the look-away episode start   *)
(* and the no-face timer do not change, whatever resolves in between.      *)
C12_FrozenAfterStop ==
    [][(~isInterviewRunning /\ ~isInterviewRunning') =>
          UNCHANGED <<lookAwayCount, noFaceCount, multipleFacesCount, phoneCount,
                      bookCount, deviceCount, gazeDirectionHistory,
                      lookingAwayStartTime, noFaceStartTime>>
      ]_vars

(* C13: a tick whose face or object inference fails leaves the six         *)
(* counters, the gaze history, the look-away episode start and the         *)
(* no-face timer as they were, and the interval timers stay scheduled.     *)
C13_FailedTickIsNoOp ==
    [][(FaceReject \/ ObjReject) =>
          UNCHANGED <<lookAwayCount, noFaceCount, multipleFacesCount, phoneCount,
                      bookCount, deviceCount, gazeDirectionHistory,
                      lookingAwayStartTime, noFaceStartTime,
                      faceTimers, faceHandleLive, objTimers, objHandleLive>>
      ]_vars

(* The only face tick of a running first session has fired and settled     *)
(* without a frame ever being processed: its inference failed; the timer   *)
(* is scheduled for the next tick.                                         *)
C13_Witness ==
    /\ starts = 1 /\ isInterviewRunning
    /\ faceInFlight = 0 /\ lastFrameTime = NULL
    /\ Len(faceTimers) = 1 /\ faceHandleLive
    /\ faceTimers[1] > startTime + FACE_INTERVAL
    /\ faceTimers[1] > now
    /\ noFaceStartTime = NULL /\ gazeDirectionHistory = <<>>

(* C14 as stated: a failed face or object inference appends one entry of   *)
(* severity 'error' to the event log.                                      *)
C14_FailureLogged ==
    [][(FaceReject \/ ObjReject) =>
          /\ Len(eventLog') = Len(eventLog) + 1
          /\ eventLog'[Len(eventLog')].type = "error"
      ]_vars

(* C15 as stated: the raw sample pushed for a face whose bounding box has  *)
(* width 0 is false, wherever its eyes and nose are.                       *)
C15_ZeroWidthNotAway ==
    (Len(lastFaces) = 1 /\ lastFaces[1].topLeft = lastFaces[1].bottomRight) =>
        gazeDirectionHistory[Len(gazeDirectionHistory)] = FALSE

(* C16: when getUserMedia fails, the running flag, the interval timers,    *)
(* the pending metadata events and the six counters are left as they were  *)
(* and one entry of type 'error' saying the camera could not be accessed   *)
(* is appended to the event log.                                           *)
C16_CameraFailure ==
    [][MediaReject =>
          /\ UNCHANGED <<isInterviewRunning, startTime, metadataPending,
                         faceTimers, faceHandleLive, objTimers, objHandleLive,
                         lookAwayCount, noFaceCount, multipleFacesCount,
                         phoneCount, bookCount, deviceCount>>
          /\ Len(eventLog') = Len(eventLog) + 1
          /\ SubSeq(eventLog', 1, Len(eventLog)) = eventLog
          /\ eventLog'[Len(eventLog')].type = "error"
          /\ eventLog'[Len(eventLog')].message = "Error accessing camera: "
      ]_vars

(* The only start was refused the camera: nothing runs, nothing is         *)
(* scheduled and the log ends with the error.                              *)
C16_Witness ==
    /\ starts = 1 /\ mediaPending = 0 /\ metadataPending = 0
    /\ ~isInterviewRunning /\ startTime = NULL
    /\ faceTimers = <<>> /\ objTimers = <<>>
    /\ eventLog[Len(eventLog)].type = "error"
    /\ eventLog[Len(eventLog)].message = "Error accessing camera: "
    /\ dom = InitDom

(* C17 as stated: when the recorder cannot be created at start, the        *)
(* running flag is not set and no polling timer is scheduled.              *)
C17_NoRecorderNoSession ==
    [][LoadedMetadata(FALSE) =>
          /\ ~isInterviewRunning'
          /\ UNCHANGED <<faceTimers, objTimers>>
      ]_vars

(* C18: every downloadReport of a stopped session that has run to its end  *)
(* has attempted the PDF exactly once and has saved exactly one document,  *)
(* the PDF or, when the PDF failed, the text report, whether the POST      *)
(* reached the server or failed; the document carries the counters and     *)
(* the score of the session.                                               *)
C18_ReportAlwaysProduced ==
    LET finished == downloads - Len(postInFlight) - Len(postResponses)
        Logged(message) ==
            Cardinality({i \in DOMAIN eventLog : eventLog[i].message = message})
        pdfDone == Logged("PDF report downloaded successfully.")
        pdfFailed == Logged("Error generating PDF. Falling back to text report.")
        textDone == Logged("Local report downloaded successfully.")
    IN /\ Len(documents) = finished
       /\ pdfDone + pdfFailed = finished
       /\ textDone = pdfFailed
       /\ Cardinality({i \in DOMAIN documents : documents[i].kind = "pdf"}) = pdfDone
       /\ Cardinality({i \in DOMAIN documents : documents[i].kind = "txt"}) = textDone
       /\ \A i \in DOMAIN documents :
              /\ documents[i].focusIssues =
                     [lookAwayCount |-> lookAwayCount, noFaceCount |-> noFaceCount,
                      multipleFacesCount |-> multipleFacesCount]
              /\ documents[i].prohibitedItems =
                     [phonesDetected |-> phoneCount, booksDetected |-> bookCount,
                      devicesDetected |-> deviceCount]
              /\ documents[i].integrityScore = dom.score

(* The POST never reached the server and the PDF failed: the text report   *)
(* was saved.                                                              *)
C18_Witness ==
    /\ downloads = 1 /\ postInFlight = <<>> /\ postResponses = <<>>
    /\ reports = <<>>
    /\ Len(documents) = 1 /\ documents[1].kind = "txt"
    /\ \E i \in DOMAIN eventLog :
           eventLog[i].message = "Error saving report to server. Generating local PDF..."
    /\ eventLog[Len(eventLog)].message = "Local report downloaded successfully."

(* C19: no step other than a start decreases any of the six counters or    *)
(* increases the integrity score computed from them; in particular no      *)
(* step of a face tick or of an object tick does.                          *)
C19_CountersMonotone ==
    [][~(~isInterviewRunning /\ isInterviewRunning') =>
          /\ lookAwayCount' >= lookAwayCount
          /\ noFaceCount' >= noFaceCount
          /\ multipleFacesCount' >= multipleFacesCount
          /\ phoneCount' >= phoneCount
          /\ bookCount' >= bookCount
          /\ deviceCount' >= deviceCount
          /\ IntegrityScore(G)' <= IntegrityScore(G)
      ]_vars

(* Both channels have counted: a frame with two faces and two phones.      *)
C19_Witness ==
    /\ multipleFacesCount = 1 /\ phoneCount = 2
    /\ IntegrityScore(G) = 70

C21_LogAppendOnly ==
    [][/\ Len(eventLog') >= Len(eventLog)
       /\ SubSeq(eventLog', 1, Len(eventLog)) = eventLog
       /\ exported' # exported =>
              /\ exported'.built
              /\ Len(exported'.events) = Len(eventLog')
              /\ \A i \in DOMAIN eventLog' :
                     /\ exported'.events[i].timestamp = eventLog'[i].timestamp
                     /\ exported'.events[i].message = eventLog'[i].message
                     /\ exported'.events[i].type = eventLog'[i].type
      ]_vars

(* A report was exported with the log of the session and the log has       *)
(* grown since.                                                            *)
C21_Witness ==
    /\ exported.built
    /\ Len(exported.events) > Len(InitLog) + 5
    /\ Len(eventLog) > Len(exported.events)
    /\ \E i \in DOMAIN exported.events :
           exported.events[i].message = "Mobile phone detected!"

(* C22: every report in the server's reports array has the ten fields id,  *)
(* timestamp, candidateName, interviewDuration, startTime, endTime,        *)
(* focusIssues, prohibitedItems, integrityScore and events, whatever the   *)
(* posted body left out.                                                   *)
C22_StoredReportComplete ==
    \A i \in DOMAIN reports :
        DOMAIN reports[i] = {"id", "timestamp", "candidateName", "interviewDuration",
                             "startTime", "endTime", "focusIssues", "prohibitedItems",
                             "integrityScore", "events"}

(* A body without any field was stored: every field holds its default.     *)
C22_Witness ==
    \E i \in DOMAIN reports :
        /\ reports[i].candidateName = "Test Candidate"
        /\ reports[i].interviewDuration = 0
        /\ reports[i].startTime = reports[i].timestamp
        /\ reports[i].focusIssues.lookAwayCount = 0
        /\ reports[i].prohibitedItems.phonesDetected = 0
        /\ reports[i].integrityScore = 100
        /\ reports[i].events = <<>>

(* C23: for a face of non-zero width the sample pushed is 'looking away'   *)
(* iff both eye-to-nose distances exceed 0.12 of the width or the smaller  *)
(* is less than 0.7 of the larger; equal distances below 0.12 of the       *)
(* width give 'focused'.  (Distances times 3, to stay in the integers.)    *)
C23_RawClassifier ==
    (Len(lastFaces) = 1 /\ lastFaces[1].topLeft # lastFaces[1].bottomRight) =>
        LET f == lastFaces[1]
            width == IF f.bottomRight > f.topLeft THEN f.bottomRight - f.topLeft
                     ELSE f.topLeft - f.bottomRight
            rs == (f.rightEye[1] + f.rightEye[2] + f.rightEye[3]) - 3 * f.nose
            ls == (f.leftEye[1] + f.leftEye[2] + f.leftEye[3]) - 3 * f.nose
            right == IF rs < 0 THEN -rs ELSE rs
            left == IF ls < 0 THEN -ls ELSE ls
            smaller == IF right < left THEN right ELSE left
            larger == IF right < left THEN left ELSE right
            sample == gazeDirectionHistory[Len(gazeDirectionHistory)]
        IN /\ sample <=> \/ (right * 100 > 12 * 3 * width /\ left * 100 > 12 * 3 * width)
                          \/ smaller * 10 < 7 * larger
           /\ (right = left /\ right * 100 < 12 * 3 * width) => ~sample

(* A face 100 wide with its eye centres 7 and 11 off the nose: neither     *)
(* distance exceeds 12, the ratio is below 0.7, the sample is true.        *)
C23_Witness ==
    /\ lastFaces = <<BoxFace(EyeAt(43), EyeAt(61), 0, 100)>>
    /\ gazeDirectionHistory # <<>>
    /\ gazeDirectionHistory[Len(gazeDirectionHistory)] = TRUE

(* C24: the gaze history never holds more than 8 samples, and processing a *)
(* frame of one face appends its sample at the end, after removing the     *)
(* first sample when 8 were held.                                          *)
C24_HistoryIsSlidingWindow ==
    [][/\ Len(gazeDirectionHistory') <= 8
       /\ (faceInFlight' < faceInFlight /\ Len(lastFaces') = 1) =>
              \E sample \in BOOLEAN :
                  gazeDirectionHistory' =
                      (IF Len(gazeDirectionHistory) = 8
                       THEN Tail(gazeDirectionHistory)
                       ELSE gazeDirectionHistory) \o <<sample>>
      ]_vars

(* Nine looking-away frames from the start of the session: the ninth was   *)
(* pushed into a full history.                                             *)
C24_Witness ==
    /\ awayRun = 9
    /\ gazeDirectionHistory = <<TRUE, TRUE, TRUE, TRUE, TRUE, TRUE, TRUE, TRUE>>

(* C25: processing a frame with no face leaves the gaze history empty and  *)
(* leaves lookAwayCount and multipleFacesCount as they were.               *)
C25_NoFaceFrameEffect ==
    [][FaceResolve(<<>>) =>
          /\ gazeDirectionHistory' = <<>>
          /\ UNCHANGED <<lookAwayCount, multipleFacesCount>>
      ]_vars

(* Faces had come back after a no-face run and are gone again: the samples *)
(* of the frames with a face have been dropped.                            *)
C25_Witness ==
    /\ lastFaces = <<>> /\ zeroRunStart # NULL
    /\ gazeDirectionHistory = <<>>
    /\ noFaceStartTime # NULL
    /\ \E i \in DOMAIN eventLog : eventLog[i].message = "Face detected again."

(* C26: when a frame of one face brings the looking-away samples of the    *)
(* history to 5 or more while no episode is open, the episode start is set *)
(* to the time of the frame, one 'started looking away' entry is logged    *)
(* and lookAwayCount is left as it was.                                    *)
C26_EpisodeOpens ==
    [][(/\ faceInFlight' < faceInFlight
        /\ Len(lastFaces') = 1
        /\ lookingAwayStartTime = NULL
        /\ Cardinality({i \in DOMAIN gazeDirectionHistory' :
                            gazeDirectionHistory'[i]}) >= 5) =>
          /\ lookingAwayStartTime' = now
          /\ Len(eventLog') = Len(eventLog) + 1
          /\ SubSeq(eventLog', 1, Len(eventLog)) = eventLog
          /\ eventLog'[Len(eventLog')].message =
                 "Candidate started looking away from screen."
          /\ lookAwayCount' = lookAwayCount
      ]_vars

(* The frame just processed opened an episode.                             *)
C26_Witness ==
    /\ lookingAwayStartTime = lastFrameTime /\ lookingAwayStartTime # NULL
    /\ eventLog[Len(eventLog)].message = "Candidate started looking away from screen."
    /\ lookAwayCount = 0

(* C27: while an episode is open, a frame of one face that is still        *)
(* consistently looking away adds exactly 1 to lookAwayCount iff more than *)
(* 2000 ms have passed since the episode start, and then moves the episode *)
(* start to the time of the frame; otherwise it leaves both as they were.  *)
C27_OpenEpisodeFires ==
    [][(/\ faceInFlight' < faceInFlight
        /\ Len(lastFaces') = 1
        /\ lookingAwayStartTime # NULL
        /\ Cardinality({i \in DOMAIN gazeDirectionHistory' :
                            gazeDirectionHistory'[i]}) >= 5) =>
          IF now - lookingAwayStartTime > 2000
          THEN /\ lookAwayCount' = lookAwayCount + 1
               /\ lookingAwayStartTime' = now
          ELSE /\ lookAwayCount' = lookAwayCount
               /\ lookingAwayStartTime' = lookingAwayStartTime
      ]_vars

(* The frame just processed fired for the second time in one run of        *)
(* looking-away frames: the first fire moved the start, the second came    *)
(* more than 2 seconds after it.                                           *)
C27_Witness ==
    /\ lookAwayCount = 2
    /\ lookingAwayStartTime = lastFrameTime
    /\ awayRun = 27

(* The second in which the open episode began, read from the time stamp of *)
(* the last 'started looking away' entry of the log (script.js:597-599);   *)
(* the episode began within that second.                                   *)
EpisodeOpenedSecond ==
    LET i == CHOOSE k \in DOMAIN eventLog :
                 /\ eventLog[k].message = "Candidate started looking away from screen."
                 /\ \A j \in DOMAIN eventLog :
                        eventLog[j].message = "Candidate started looking away from screen."
                            => j <= k
    IN eventLog[i].timestamp

C29_IndicatorFollowsDebouncer ==
    Len(lastFaces) = 1 =>
        /\ focusIndicator \in {"Looking Away", "Candidate Focused"}
        /\ (focusIndicator = "Looking Away") <=>
               (Cardinality({i \in DOMAIN gazeDirectionHistory :
                                gazeDirectionHistory[i]}) >= 5)

(* Number of 'Face detected again.' entries in a log *)
FaceAgainEntries(log) ==
    Cardinality({i \in DOMAIN log : log[i].message = "Face detected again."})

(* C30: a processed frame with at least one face that follows a frame with *)
(* no face clears noFaceStartTime and adds exactly one 'Face detected      *)
(* again.' entry to the log; one that follows a frame with faces, or no    *)
(* frame at all, adds none.                                                *)
C30_FaceDetectedAgain ==
    [][(Len(lastFaces') >= 1 /\ FaceResolve(lastFaces')) =>
          IF lastFrameTime # NULL /\ lastFaces = <<>>
          THEN /\ noFaceStartTime' = NULL
               /\ FaceAgainEntries(eventLog') = FaceAgainEntries(eventLog) + 1
          ELSE /\ noFaceStartTime' = NULL
               /\ FaceAgainEntries(eventLog') = FaceAgainEntries(eventLog)
      ]_vars

(* A face has just come back after a run of frames with no face that was   *)
(* long enough to fire the no-face violation.                              *)
C30_Witness ==
    /\ Len(lastFaces) = 1 /\ noFaceStartTime = NULL
    /\ noFaceCount = 1
    /\ eventLog[Len(eventLog)].message = "Face detected again."
    /\ eventLog[Len(eventLog) - 1].message = "No face detected for more than 10 seconds!"

(* Number of detections of a tick that qualify and whose class is in a set *)
QualifyingOf(p, classes) ==
    Cardinality({i \in DOMAIN p : p[i].class \in classes /\ p[i].score > 60})

(* C31: an object tick adds to phoneCount the qualifying cell phones, to   *)
(* bookCount the qualifying books and to deviceCount the qualifying        *)
(* laptops, keyboards, mice and remotes of the tick, whatever the counters *)
(* already hold, so the three counters grow by the number of qualifying    *)
(* detections.                                                             *)
C31_OneCounterPerDetection ==
    [][(\E p \in ObjRunPredictions \cup ObjPredictions :
            p = lastPredictions' /\ ObjResolve(p)) =>
          LET p == lastPredictions'
          IN /\ phoneCount' = phoneCount + QualifyingOf(p, {"cell phone"})
             /\ bookCount' = bookCount + QualifyingOf(p, {"book"})
             /\ deviceCount' = deviceCount
                    + QualifyingOf(p, {"laptop", "keyboard", "mouse", "remote"})
      ]_vars

(* A remote seen at 0.61 in three consecutive ticks has added 3.           *)
C31_Witness ==
    /\ deviceCount = 3 /\ phoneCount = 0 /\ bookCount = 0
    /\ lastPredictions = <<[class |-> "remote", score |-> 61]>>
    /\ \A k \in 0..2 : eventLog[Len(eventLog) - k].message = DeviceMessage("remote")

(* C32: a step of the face channel (timer callback, result, failure)       *)
(* leaves phoneCount, bookCount and deviceCount as they were, and a step   *)
(* of the object channel leaves lookAwayCount, noFaceCount,                *)
(* multipleFacesCount, the gaze history, the episode start and the no-face *)
(* timer as they were.                                                     *)
C32_ChannelsWriteDisjointState ==
    [][/\ ((\/ \E i \in 1..1 : FaceTimerFire(i, 1)
             \/ \E f \in SessionFrames : FaceResolve(f)
             \/ FaceReject)
           => UNCHANGED <<phoneCount, bookCount, deviceCount>>)
       /\ ((\/ \E i \in 1..1 : ObjTimerFire(i, 1)
             \/ \E p \in SessionPredictions : ObjResolve(p)
             \/ ObjReject)
           => UNCHANGED <<lookAwayCount, noFaceCount, multipleFacesCount,
                          gazeDirectionHistory, lookingAwayStartTime,
                          noFaceStartTime>>)
      ]_vars

(* Both channels have counted, and an object result has just been          *)
(* processed while a face inference is pending and the gaze history holds  *)
(* samples.                                                                *)
C32_Witness ==
    /\ phoneCount >= 1 /\ multipleFacesCount = 1
    /\ Len(gazeDirectionHistory) >= 1
    /\ faceInFlight >= 1
    /\ Len(lastPredictions) = 1
    /\ eventLog[Len(eventLog)].message = "Mobile phone detected!"

(* C33: in a running session every timer callback of a channel goes on to *)
(* its inference, whatever the other channel has pending, and processing   *)
(* a result of one channel leaves the other channel's pending inference    *)
(* pending.                                                                *)
C33_NoCrossChannelStall ==
    [][/\ ((isInterviewRunning /\ FaceTimerFire(1, 1))
              => faceInFlight' = faceInFlight + 1 /\ objInFlight' = objInFlight)
       /\ ((isInterviewRunning /\ ObjTimerFire(1, 1))
              => objInFlight' = objInFlight + 1 /\ faceInFlight' = faceInFlight)
       /\ ((\E f \in SessionFrames : FaceResolve(f)) => objInFlight' = objInFlight)
       /\ ((\E p \in SessionPredictions : ObjResolve(p))
              => faceInFlight' = faceInFlight)
      ]_vars

(* An object tick started after a face inference was issued, and its       *)
(* result was processed and counted while that face inference is still     *)
(* pending.                                                                *)
C33_Witness ==
    /\ faceInFlight = 1 /\ objInFlight = 0
    /\ Len(faceTimers) = 1 /\ Len(objTimers) = 1
    /\ faceTimers[1] - FACE_INTERVAL < objTimers[1] - OBJECT_INTERVAL
    /\ lastPredictions = <<[class |-> "cell phone", score |-> 90]>>
    /\ phoneCount = 1

(* C34: a step that changes lookAwayCount adds exactly 1, and happens more *)
(* than 2000 ms after the time held in lookingAwayStartTime; that time is  *)
(* only ever set to the time of the frame being processed, when an episode *)
(* opens (with its 'started looking away' entry) or when the count is      *)
(* incremented, and time does not run backwards. Hence two successive      *)
(* increments, and an increment and the opening of its episode, are more   *)
(* than 2000 ms apart.                                                     *)
C34_IncrementsTwoSecondsApart ==
    [][/\ now' >= now
       /\ (lookAwayCount' # lookAwayCount =>
              /\ lookAwayCount' = lookAwayCount + 1
              /\ lookingAwayStartTime # NULL
              /\ now - lookingAwayStartTime > 2000
              /\ lookingAwayStartTime' \in {now, NULL})
       /\ (lookingAwayStartTime' \notin {lookingAwayStartTime, NULL} =>
              /\ lookingAwayStartTime' = now
              /\ (lookAwayCount' = lookAwayCount =>
                     eventLog'[Len(eventLog')].message \in
                        {"Candidate started looking away from screen."}))
      ]_vars

(* Two increments in one session, the second on a frame of two faces.      *)
C34_Witness ==
    /\ lookAwayCount = 2
    /\ Len(lastFaces) = 2
    /\ lookingAwayStartTime \in {lastFrameTime, NULL}

(* C35: noFaceCount is incremented only when the no-face timer was started *)
(* in the session now running, and lookAwayCount only when the episode     *)
(* start was set in the session now running.                               *)
C35_ViolationsFromThisSession ==
    [][/\ (noFaceCount' # noFaceCount =>
              noFaceStartTime # NULL /\ noFaceStartTime >= startTime)
       /\ (lookAwayCount' # lookAwayCount =>
              lookingAwayStartTime # NULL /\ lookingAwayStartTime >= startTime)
      ]_vars

(* C36: at most one face timer and at most one object timer are scheduled, *)
(* and none while no interview is running.                                 *)
C36_OneTimerPerChannel ==
    /\ Len(faceTimers) <= 1 /\ Len(objTimers) <= 1
    /\ ~isInterviewRunning => (faceTimers = <<>> /\ objTimers = <<>>)

(* C37: the first frame of one face processed after a frame with no face   *)
(* is judged not consistently looking away, leaves no episode open and     *)
(* does not change lookAwayCount; and lookAwayCount changes only on a      *)
(* frame that brings the history to 5 samples or more, that is on the      *)
(* fifth or a later frame of one face in a row since the last frame with   *)
(* no face.                                                                *)
C37_GapResetsDebouncer ==
    [][/\ ((\E f \in GazeGapFrames : Len(f) = 1 /\ FaceResolve(f))
              /\ lastFrameTime # NULL /\ lastFaces = <<>>
            => /\ gazeDebug' = "FOCUSED"
               /\ Len(gazeDirectionHistory') = 1
               /\ lookingAwayStartTime' = NULL
               /\ lookAwayCount' = lookAwayCount)
       /\ (lookAwayCount' # lookAwayCount => Len(gazeDirectionHistory') >= 5)
       /\ ((\E f \in GazeGapFrames : FaceResolve(f)) =>
              Len(gazeDirectionHistory') =
                 IF lastFaces' = <<>> THEN 0
                 ELSE IF Len(gazeDirectionHistory) < 8
                      THEN Len(gazeDirectionHistory) + 1 ELSE 8)
      ]_vars

(* A looking-away face has just come back after a frame with no face: the  *)
(* episode that was open before the gap has been closed and reported.      *)
C37_Witness ==
    /\ lastFaces = <<AwayFace>>
    /\ gazeDirectionHistory = <<TRUE>>
    /\ lookingAwayStartTime = NULL
    /\ eventLog[Len(eventLog)].message = "Candidate returned to looking at screen."
    /\ eventLog[Len(eventLog) - 1].message = "Face detected again."

(* Number of entries of a log that carry a message *)
EntriesWith(log, message) ==
    Cardinality({i \in DOMAIN log : log[i].message = message})

(* C38: stopInterview with no interview running changes neither the        *)
(* running flag, the counters, the timers nor the event log; so the log    *)
(* never holds more 'Interview stopped' entries than 'Interview started'   *)
(* entries.                                                                *)
C38_StopIdleChangesNothing ==
    /\ [](EntriesWith(eventLog, "Interview stopped. Ready to generate report.")
             <= EntriesWith(eventLog, "Interview started. Camera access granted."))
    /\ [][StopIdle =>
             UNCHANGED <<isInterviewRunning, lookAwayCount, noFaceCount,
                         multipleFacesCount, phoneCount, bookCount, deviceCount,
                         faceTimers, objTimers, eventLog, dom>>
          ]_vars

(* A session has been stopped and no other is running or being started:    *)
(* a further stop is the idle one.                                         *)
C38_Witness ==
    /\ ~isInterviewRunning /\ mediaPending = 0 /\ metadataPending = 0
    /\ eventLog[Len(eventLog)].message = "Interview stopped. Ready to generate report."
    /\ EntriesWith(eventLog, "Interview stopped. Ready to generate report.") = 1
    /\ ENABLED StopIdle

(* Ids of the reports held in a reports array *)
ReportIds(rs) == {rs[i].id : i \in DOMAIN rs}

(* C39: a DELETE answered with success removes the report of that id from  *)
(* the array, from the list GET /api/reports returns and from the health   *)
(* count, and leaves the other reports as they were and in their order; a  *)
(* DELETE of an id that is not stored is answered 404 and leaves array and *)
(* files as they were; a GET of an id that is not stored is answered 404.  *)
C39_DeleteRemovesReport ==
    [][/\ ((\E id \in 1..MaxPosts, unlinkOk \in BOOLEAN : ServerDelete(id, unlinkOk)) =>
              LET id == deleteResponse'.id
              IN IF id \in ReportIds(reports)
                 THEN /\ deleteResponse'.status \in {200, 500}
                      /\ deleteResponse'.status = 200 =>
                            /\ id \notin ReportIds(reports')
                            /\ id \notin ReportIds(SortedReports(reports'))
                            /\ Len(SortedReports(reports')) = Len(reports')
                            /\ HealthResponse'.reportsCount
                                  = HealthResponse.reportsCount - 1
                            /\ \E k \in DOMAIN reports :
                                  /\ reports[k].id = id
                                  /\ reports' = [i \in 1..(Len(reports) - 1) |->
                                                   IF i < k THEN reports[i]
                                                   ELSE reports[i + 1]]
                 ELSE /\ deleteResponse'.status = 404
                      /\ UNCHANGED <<reports, files>>)
       /\ ((\E id \in 1..MaxPosts : ServerGet(id)) =>
              (getResponse'.status = 404 <=>
                  \A id \in 1..MaxPosts :
                      ServerGet(id) => id \notin ReportIds(reports)))
      ]_vars

(* Of two reports posted one has been deleted with success and a later GET *)
(* of its id was answered 404; the other report is still stored.           *)
C39_Witness ==
    /\ nextId = 3 /\ postInFlight = <<>>
    /\ deleteResponse.status = 200
    /\ getResponse.status = 404
    /\ Len(reports) = 1 /\ reports[1].id # deleteResponse.id

(* C40: the ids of the reports held in memory are the ids that have a      *)
(* report-<id>.json file.                                                  *)
C40_MemoryMatchesDisk == ReportIds(reports) = files

====
